---- MODULE Spec2Model ----
(***************************************************************************)
(* A model of blitz-dom's Handle (packages/blitz-dom/src/handle.rs): the   *)
(* arena cursor, its geometric queries over the layout results, and the    *)
(* parts of the stylo element contract that keep per-node state.           *)
(*                                                                         *)
(* Coordinates are f32 in the source.  The model keeps the integers among  *)
(* them and rounds every sum and difference to the 24-bit significand of   *)
(* f32 (nearest, ties to even); fractions, NaN and infinities are outside  *)
(* the model.                                                              *)
(***************************************************************************)
EXTENDS Integers, Sequences, FiniteSets, TLC

\* ------------------------------------------------------------------ bounds

\* Points handed to hit / absolute_position range over -1..MaxCoord.
MaxCoord == 3

\* ------------------------------------------------------------- the arena

\* Option<T>
None == [some |-> FALSE]
Some(v) == [some |-> TRUE, val |-> v]

\* The slab of nodes: ids are arena indexes, id 0 is the document.
NodeIds == {0, 1, 2, 3}

VARIABLES
    raw_dom_data,       \* Node::raw_dom_data: the variant of each node
    parent,             \* Node::parent: Option<usize>
    children,           \* Node::children: Vec<usize>, document order
    layout_parent,      \* Node::layout_parent: Cell<Option<usize>>
    layout_children,    \* Node::layout_children: RefCell<Option<Vec<usize>>>
    final_layout,       \* Node::final_layout: location and size
    scroll_offset,      \* Node::scroll_offset
    element_data,       \* the ElementData inside raw_dom_data: name, attributes, checkbox state
    element_state,      \* Node::element_state: the ElementState bits
    ret,                \* the last call made outside the workers, and what it returned
    stylo_element_data, \* Node::stylo_element_data: the Option<ElementData> in the cell
    stylo_borrow,       \* the borrow state of each node's stylo_element_data cell
    thread,             \* each worker: the call it is in, and what its last call returned
    held,               \* each worker: the guards (AtomicRef / AtomicRefMut) it holds
    snapshot_handled,   \* Node::snapshot_handled: AtomicBool
    selector_flags,     \* Node::selector_flags: the ElementSelectorFlags in the cell
    selector_flags_borrow, \* whether a borrow_mut() guard on the node's selector_flags is alive
    flags_thread,       \* each worker: where it is in apply_selector_flags
    worklist,           \* the nodes the traversal has noted and not yet visited
    recalculated        \* the elements recalc_style_at has run on

treeVars == <<raw_dom_data, parent, children, layout_parent, layout_children,
              final_layout, scroll_offset, element_data, element_state>>

dataVars == <<stylo_element_data, stylo_borrow, thread, held>>

travVars == <<worklist, recalculated>>

flagVars == <<selector_flags_borrow, flags_thread>>

vars == <<raw_dom_data, parent, children, layout_parent, layout_children,
          final_layout, scroll_offset, element_data, element_state, ret,
          stylo_element_data, stylo_borrow, thread, held,
          snapshot_handled, selector_flags, worklist, recalculated,
          selector_flags_borrow, flags_thread>>

\* What each group of operations leaves alone.
notGeom == <<treeVars, dataVars, snapshot_handled, selector_flags, travVars, flagVars>>
notData == <<treeVars, ret, snapshot_handled, selector_flags, travVars, flagVars>>

\* ------------------------------------------------- Hit Testing & Geometry

\* Mutant of layout_parent_get: follows the DOM parent.
layout_parent_get_dom(n) == parent[n]

\* self.node.layout_parent.get()
layout_parent_get(n) == layout_parent[n]

\* The significand of f32: 23 stored bits and the implicit leading one.
F32MantissaBits == 24

\* The spacing of the f32 values around magnitude a, from u upwards.
RECURSIVE f32_ulp(_, _)
f32_ulp(a, u) == IF a < (2 ^ F32MantissaBits) * u THEN u ELSE f32_ulp(a, 2 * u)

\* The f32 nearest to the integer v, ties to the even significand.
f32_round(v) ==
    LET a == IF v < 0 THEN 0 - v ELSE v
        u == f32_ulp(a, 1)
        q == a \div u
        r == a % u
        up == 2 * r > u \/ (2 * r = u /\ q % 2 = 1)
        m == (IF up THEN q + 1 ELSE q) * u
    IN  IF v < 0 THEN 0 - m ELSE m

\* f32 + f32 and f32 - f32
f32_add(a, b) == f32_round(a + b)
f32_sub(a, b) == f32_round(a - b)

\* scroll_offset.x as f32 (scroll_offset holds f64)
as_f32(v) == f32_round(v)

\* absolute_position: x + final_layout.location.x - scroll_offset.x (and y)
abs_accumulate(n, x, y) ==
    [x |-> f32_sub(f32_add(x, final_layout[n].location.x), as_f32(scroll_offset[n].x)),
     y |-> f32_sub(f32_add(y, final_layout[n].location.y), as_f32(scroll_offset[n].y))]

RECURSIVE absolute_position(_, _, _)
absolute_position(n, x, y) ==
    LET p == abs_accumulate(n, x, y)
        up == layout_parent_get(n)
    IN  IF up.some THEN absolute_position(up.val, p.x, p.y) ELSE p

\* Mutant of hit_local: the scroll offset is taken off, as the layout offset is.
hit_local_scroll_subtracted(n, x, y) ==
    [x |-> f32_sub(f32_sub(x, final_layout[n].location.x), as_f32(scroll_offset[n].x)),
     y |-> f32_sub(f32_sub(y, final_layout[n].location.y), as_f32(scroll_offset[n].y))]

\* hit: x - final_layout.location.x + scroll_offset.x (and y)
hit_local(n, x, y) ==
    [x |-> f32_add(f32_sub(x, final_layout[n].location.x), as_f32(scroll_offset[n].x)),
     y |-> f32_add(f32_sub(y, final_layout[n].location.y), as_f32(scroll_offset[n].y))]

\* Mutant of hit_out_of_bounds: the box is not extended by the scroll offset.
hit_out_of_bounds_unscrolled(n, x, y) ==
    LET size == final_layout[n].size
    IN  x < 0 \/ x > size.width \/ y < 0 \/ y > size.height

\* hit: the bounds test on the translated point
hit_out_of_bounds(n, x, y) ==
    LET size == final_layout[n].size
    IN  \/ x < 0
        \/ x > f32_add(size.width, as_f32(scroll_offset[n].x))
        \/ y < 0
        \/ y > f32_add(size.height, as_f32(scroll_offset[n].y))

\* Mutant of hit_children: walks the DOM children.
hit_children_dom(n) == children[n]

\* self.node.layout_children.borrow().iter().flatten(): the ids of the list,
\* none when the option is None
hit_children(n) ==
    IF layout_children[n].some THEN layout_children[n].val ELSE <<>>

\* .or(Some(HitResult { node_id, x, y }))
hit_or_self(r, n, x, y) ==
    IF r.some THEN r ELSE Some([node_id |-> n, x |-> x, y |-> y])

RECURSIVE hit(_, _, _)
RECURSIVE hit_find_map(_, _, _, _)

\* .find_map(|&id| self.get(id).hit(x, y)) over ids[i..]
hit_find_map(ids, i, x, y) ==
    IF i > Len(ids) THEN None
    ELSE LET r == hit(ids[i], x, y)
         IN  IF r.some THEN r ELSE hit_find_map(ids, i + 1, x, y)

hit(n, px, py) ==
    LET p == hit_local(n, px, py)
    IN  IF hit_out_of_bounds(n, p.x, p.y) THEN None
        ELSE hit_or_self(hit_find_map(hit_children(n), 1, p.x, p.y), n, p.x, p.y)

\* ---------------------------------------------------------------- scenes

Points == (0 - 1) .. MaxCoord

Layout(lx, ly, w, h) ==
    [location |-> [x |-> lx, y |-> ly], size |-> [width |-> w, height |-> h]]

Scroll(sx, sy) == [x |-> sx, y |-> sy]

\* What layout and input handling may have written to one node.
LayoutChoices ==
    { <<Layout(0, 0, 3, 3), Scroll(0, 0)>>,
      <<Layout(1, 0, 2, 3), Scroll(1, 0)>>,
      <<Layout(0, 2, 3, 0), Scroll(0, 1)>>,
      <<Layout(0 - 1, 1, 2, 1), Scroll(1, 2)>> }

\* The ids of s in ascending (asc) or descending order.
RECURSIVE Ordered(_, _)
Ordered(s, asc) ==
    IF s = {} THEN <<>>
    ELSE LET m == CHOOSE a \in s : \A b \in s : IF asc THEN a <= b ELSE a >= b
         IN  <<m>> \o Ordered(s \ {m}, asc)

KidsOf(par, p) == {n \in NodeIds : par[n] = Some(p)}

\* A DOM tree: the parser appends, so a parent's id is below its children's
\* and children are in ascending order.
DomTrees ==
    {par \in [NodeIds -> {None} \cup {Some(p) : p \in NodeIds}] :
        /\ par[0] = None
        /\ \A n \in NodeIds \ {0} : par[n].some /\ par[n].val < n}

InitDom(par) ==
    /\ parent = par
    /\ children = [p \in NodeIds |-> Ordered(KidsOf(par, p), TRUE)]

\* A layout tree over the same nodes, with its own shape and child order.
InitLayoutTree ==
    \E lp \in DomTrees, asc \in BOOLEAN :
        /\ layout_parent = lp
        /\ layout_children =
              [p \in NodeIds |->
                  IF KidsOf(lp, p) = {} THEN None
                  ELSE Some(Ordered(KidsOf(lp, p), asc))]

AllElements == [n \in NodeIds |-> IF n = 0 THEN "Document" ELSE "Element"]

NoCall == [op |-> "none"]

\* The DOM in which every node is the only child of the node before it.
DomChain == [n \in NodeIds |-> IF n = 0 THEN None ELSE Some(n - 1)]

\* A scene with layouts from LayoutChoices, over one DOM and any layout tree.
InitGeomScene ==
    /\ raw_dom_data = AllElements
    /\ InitDom(DomChain)
    /\ InitLayoutTree
    /\ \E c \in [NodeIds -> LayoutChoices] :
          /\ final_layout = [n \in NodeIds |-> c[n][1]]
          /\ scroll_offset = [n \in NodeIds |-> c[n][2]]
    /\ ret = NoCall

\* The layout chain 1 <- 2 <- 3 with offsets (10,10), (5,5), (2,2) and zero
\* scroll, in a DOM where the three are siblings.
ChainLayoutParent == [n \in NodeIds |-> IF n <= 1 THEN None ELSE Some(n - 1)]

InitGeomChain ==
    /\ raw_dom_data = AllElements
    /\ InitDom([n \in NodeIds |-> IF n = 0 THEN None ELSE Some(0)])
    /\ layout_parent = ChainLayoutParent
    /\ layout_children =
          [n \in NodeIds |-> IF n \in {1, 2} THEN Some(<<n + 1>>) ELSE None]
    /\ final_layout = [n \in NodeIds |->
                          IF n = 1 THEN Layout(10, 10, 20, 20)
                          ELSE IF n = 2 THEN Layout(5, 5, 10, 10)
                          ELSE IF n = 3 THEN Layout(2, 2, 3, 3)
                          ELSE Layout(0, 0, 40, 40)]
    /\ scroll_offset = [n \in NodeIds |-> Scroll(0, 0)]
    /\ ret = NoCall


\* ------------------------------------------------------ style-data access

\* The engine's workers.
Workers == {1, 2}

\* A worker keeps at most MaxHeld guards that calls have returned to it.
MaxHeld == 1

\* ElementData::default(), and an ElementData the cascade has written to.
DefaultData == "default"
DataValues == {DefaultData, "styled"}

\* The cell is an AtomicRefCell: a count of shared borrows and a flag for the
\* exclusive one.  borrow() and borrow_mut() never wait: they panic.
FreeCell == [readers |-> 0, writer |-> FALSE]

\* Mutant of cell_can_borrow_mut: readers do not keep a writer out.
cell_can_borrow_mut_over_readers(b) == ~b.writer

\* stylo_element_data.borrow() succeeds
cell_can_borrow(b) == ~b.writer

\* stylo_element_data.borrow_mut() succeeds
cell_can_borrow_mut(b) == ~b.writer /\ b.readers = 0

Idle == [pc |-> "idle", node |-> 0, last |-> NoCall]

NoGuards == [n \in NodeIds |-> [shared |-> 0, exclusive |-> 0]]

RECURSIVE HeldCountIn(_, _)
HeldCountIn(h, s) ==
    IF s = {} THEN 0
    ELSE LET n == CHOOSE a \in s : TRUE
         IN  h[n].shared + h[n].exclusive + HeldCountIn(h, s \ {n})

HeldCount(w) == HeldCountIn(held[w], NodeIds)

InitData ==
    /\ stylo_element_data = [n \in NodeIds |-> None]
    /\ stylo_borrow = [n \in NodeIds |-> FreeCell]
    /\ thread = [w \in Workers |-> Idle]
    /\ held = [w \in Workers |-> NoGuards]

\* The attributes an element of the model can carry.
AttrNames == {"class", "lang", "href", "align", "width", "height", "bgcolor"}

\* An element that carries no attribute: <div>.
PlainElement ==
    [name |-> "div", attrs |-> [a \in AttrNames |-> None],
     checkbox_input_checked |-> None]

\* Every element is a plain <div> in no state.
InitPlainElements ==
    /\ element_data = [n \in NodeIds |->
                          IF raw_dom_data[n] = "Element" THEN Some(PlainElement) ELSE None]
    /\ element_state = [n \in NodeIds |-> {}]

\* The snapshot flags, selector flags and traversal before anything ran.
InitCells ==
    /\ snapshot_handled = [n \in NodeIds |-> FALSE]
    /\ selector_flags = [n \in NodeIds |-> {}]
    /\ worklist = {}
    /\ recalculated = {}
    /\ selector_flags_borrow = [n \in NodeIds |-> FALSE]
    /\ flags_thread = [w \in Workers |-> [pc |-> "idle"]]

InitRest == InitCells /\ InitPlainElements

IsElement(n) == raw_dom_data[n] = "Element"

\* The cells after worker w has dropped every guard it holds.
ReleasedBy(w) ==
    [n \in NodeIds |->
        IF held[w][n].exclusive > 0 THEN FreeCell
        ELSE [stylo_borrow[n] EXCEPT !.readers = @ - held[w][n].shared]]

\* A failed borrow panics: the worker unwinds, which drops its guards.
Panic(w, op, n) ==
    /\ thread' = [thread EXCEPT ![w] = [pc |-> "panicked", node |-> n,
                                        last |-> [op |-> op, node |-> n, value |-> "panic"]]]
    /\ stylo_borrow' = ReleasedBy(w)
    /\ held' = [held EXCEPT ![w] = NoGuards]
    /\ UNCHANGED stylo_element_data

\* self.node.stylo_element_data.borrow() in call op of worker w
Borrow(w, op, n) ==
    /\ UNCHANGED notData
    /\ thread[w].pc = "idle"
    /\ IsElement(n)
    /\ IF cell_can_borrow(stylo_borrow[n])
       THEN /\ stylo_borrow' = [stylo_borrow EXCEPT ![n].readers = @ + 1]
            /\ thread' = [thread EXCEPT ![w] = [pc |-> op, node |-> n, last |-> NoCall]]
            /\ UNCHANGED <<stylo_element_data, held>>
       ELSE Panic(w, op, n)

\* self.node.stylo_element_data.borrow_mut() in call op of worker w
BorrowMut(w, op, n) ==
    /\ UNCHANGED notData
    /\ thread[w].pc = "idle"
    /\ IsElement(n)
    /\ IF cell_can_borrow_mut(stylo_borrow[n])
       THEN /\ stylo_borrow' = [stylo_borrow EXCEPT ![n].writer = TRUE]
            /\ thread' = [thread EXCEPT ![w] = [pc |-> op, node |-> n, last |-> NoCall]]
            /\ UNCHANGED <<stylo_element_data, held>>
       ELSE Panic(w, op, n)

\* The call of worker w returns v; keep says which guard, if any, goes to
\* the caller ("none": the call's own guard is dropped as it returns).
Return(w, op, n, v, borrowed, keep) ==
    /\ UNCHANGED notData
    /\ thread' = [thread EXCEPT ![w] = [pc |-> "idle", node |-> n,
                                        last |-> [op |-> op, node |-> n, value |-> v]]]
    /\ IF keep = "none"
       THEN /\ stylo_borrow' =
                  [stylo_borrow EXCEPT ![n] =
                      IF borrowed = "exclusive" THEN FreeCell
                      ELSE [@ EXCEPT !.readers = @ - 1]]
            /\ UNCHANGED held
       ELSE /\ held' = [held EXCEPT ![w][n][keep] = @ + 1]
            /\ UNCHANGED stylo_borrow

InCall(w, op, n) == thread[w].pc = op /\ thread[w].node = n

\* Mutant of ensure_data_slot: the slot is reset on every call.
ensure_data_slot_reset(slot) == Some(DefaultData)

\* ensure_data: if stylo_data.is_none() { *stylo_data = Some(Default::default()) }
ensure_data_slot(slot) == IF slot.some THEN slot ELSE Some(DefaultData)

ensure_data_borrow(w, n) ==
    /\ HeldCount(w) < MaxHeld
    /\ BorrowMut(w, "ensure_data", n)

ensure_data_return(w, n) ==
    /\ InCall(w, "ensure_data", n)
    /\ stylo_element_data' =
          [stylo_element_data EXCEPT ![n] = ensure_data_slot(@)]
    /\ Return(w, "ensure_data", n, "RefMut", "exclusive", "exclusive")

\* clear_data: *self.node.stylo_element_data.borrow_mut() = None
clear_data_slot(slot) == None

clear_data_borrow(w, n) ==
    /\ thread[w].pc = "idle"
    /\ BorrowMut(w, "clear_data", n)

clear_data_return(w, n) ==
    /\ InCall(w, "clear_data", n)
    /\ stylo_element_data' = [stylo_element_data EXCEPT ![n] = clear_data_slot(@)]
    /\ Return(w, "clear_data", n, "unit", "exclusive", "none")

\* has_data: self.node.stylo_element_data.borrow().is_some()
has_data_value(slot) == slot.some

has_data_borrow(w, n) ==
    /\ thread[w].pc = "idle"
    /\ Borrow(w, "has_data", n)

has_data_return(w, n) ==
    /\ InCall(w, "has_data", n)
    /\ Return(w, "has_data", n, has_data_value(stylo_element_data[n]), "shared", "none")
    /\ UNCHANGED stylo_element_data

\* Mutant of borrow_data_value: a guard is handed out for an empty slot too.
borrow_data_value_always(slot) == Some("Ref")

\* borrow_data: Some(AtomicRef::map(..)) if stylo_data.is_some(), else None
borrow_data_value(slot) == IF slot.some THEN Some("Ref") ELSE None

borrow_data_borrow(w, n) ==
    /\ HeldCount(w) < MaxHeld
    /\ Borrow(w, "borrow_data", n)

borrow_data_return(w, n) ==
    /\ InCall(w, "borrow_data", n)
    /\ LET v == borrow_data_value(stylo_element_data[n])
       IN  Return(w, "borrow_data", n, v, "shared", IF v.some THEN "shared" ELSE "none")
    /\ UNCHANGED stylo_element_data

\* mutate_data: Some(AtomicRefMut::map(..)) if stylo_data.is_some(), else None
mutate_data_value(slot) == IF slot.some THEN Some("RefMut") ELSE None

mutate_data_borrow(w, n) ==
    /\ HeldCount(w) < MaxHeld
    /\ BorrowMut(w, "mutate_data", n)

mutate_data_return(w, n) ==
    /\ InCall(w, "mutate_data", n)
    /\ LET v == mutate_data_value(stylo_element_data[n])
       IN  Return(w, "mutate_data", n, v, "exclusive",
                  IF v.some THEN "exclusive" ELSE "none")
    /\ UNCHANGED stylo_element_data

\* The caller writes the ElementData through an AtomicRefMut it holds.
WriteData(w, n, v) ==
    /\ thread[w].pc = "idle"
    /\ held[w][n].exclusive > 0
    /\ stylo_element_data[n] # Some(v)
    /\ stylo_element_data' = [stylo_element_data EXCEPT ![n] = Some(v)]
    /\ thread' = [thread EXCEPT ![w].last = [op |-> "write", node |-> n, value |-> v]]
    /\ UNCHANGED <<stylo_borrow, held>>
    /\ UNCHANGED notData

\* The caller drops a guard it holds.
DropGuard(w, n, kind) ==
    /\ thread[w].pc = "idle"
    /\ held[w][n][kind] > 0
    /\ held' = [held EXCEPT ![w][n][kind] = @ - 1]
    /\ stylo_borrow' =
          [stylo_borrow EXCEPT ![n] =
              IF kind = "exclusive" THEN FreeCell ELSE [@ EXCEPT !.readers = @ - 1]]
    /\ UNCHANGED <<stylo_element_data, thread>>
    /\ UNCHANGED notData

NextData ==
    \E w \in Workers, n \in NodeIds :
        \/ ensure_data_borrow(w, n)
        \/ ensure_data_return(w, n)
        \/ clear_data_borrow(w, n)
        \/ clear_data_return(w, n)
        \/ has_data_borrow(w, n)
        \/ has_data_return(w, n)
        \/ borrow_data_borrow(w, n)
        \/ borrow_data_return(w, n)
        \/ mutate_data_borrow(w, n)
        \/ mutate_data_return(w, n)
        \/ \E v \in DataValues : WriteData(w, n, v)
        \/ \E kind \in {"shared", "exclusive"} : DropGuard(w, n, kind)

\* The document, two elements and a text node: the workers call into the
\* elements.
InitDataSpec ==
    /\ raw_dom_data = [AllElements EXCEPT ![3] = "Text"]
    /\ InitDom([n \in NodeIds |-> IF n = 0 THEN None ELSE Some(n - 1)])
    /\ layout_parent = [n \in NodeIds |-> None]
    /\ layout_children = [n \in NodeIds |-> None]
    /\ final_layout = [n \in NodeIds |-> Layout(0, 0, 0, 0)]
    /\ scroll_offset = [n \in NodeIds |-> Scroll(0, 0)]
    /\ ret = NoCall
    /\ InitData
    /\ InitRest

SpecData == InitDataSpec /\ [][NextData]_vars

\* ------------------------------------------- Style Recalculation Traversal

notTraversal == <<treeVars, ret, snapshot_handled, selector_flags, held, flagVars>>

NodeKinds == {"Document", "Text", "Comment", "Element", "AnonymousBlock"}

\* NodeInfo::is_text_node
is_text_node(n) == raw_dom_data[n] = "Text"

\* Mutant of as_element: every node narrows to an element.
as_element_any(n) == Some(n)

\* TNode::as_element: Some for NodeData::Element, None for every other variant
as_element(n) == IF raw_dom_data[n] = "Element" THEN Some(n) ELSE None

\* TElement::traversal_children: Traverser walks the DOM children in order
traversal_children(n) == {children[n][i] : i \in 1 .. Len(children[n])}

\* Mutant of process_preorder_data: the slot is borrowed as it is (mutate_data).
process_preorder_data_as_is(slot) == slot

\* process_preorder: let mut data = unsafe { el.ensure_data() }
process_preorder_data(slot) == ensure_data_slot(slot)

\* recalc_style_at writes through &mut data, the ElementData inside the slot.
recalc_style_at_data(slot, v) == IF slot.some THEN Some(v) ELSE slot

\* process_preorder on a node the engine has noted, up to recalc_style_at:
\* a text node returns at once, as_element().unwrap() panics on any other
\* non-element, and an element's data is ensured (borrow_mut panics on a
\* conflicting borrow).
process_preorder_enter(w, n) ==
    /\ thread[w].pc = "idle"
    /\ n \in worklist
    /\ worklist' = worklist \ {n}
    /\ UNCHANGED <<notTraversal, recalculated>>
    /\ IF is_text_node(n)
       THEN /\ thread' = [thread EXCEPT ![w] =
                   [pc |-> "idle", node |-> n,
                    last |-> [op |-> "process_preorder", node |-> n, value |-> "skipped"]]]
            /\ UNCHANGED <<stylo_element_data, stylo_borrow>>
       ELSE IF as_element(n).some /\ cell_can_borrow_mut(stylo_borrow[n])
       THEN /\ stylo_borrow' = [stylo_borrow EXCEPT ![n].writer = TRUE]
            /\ stylo_element_data' =
                  [stylo_element_data EXCEPT ![n] = process_preorder_data(@)]
            /\ thread' = [thread EXCEPT ![w] =
                   [pc |-> "process_preorder", node |-> n, last |-> NoCall]]
       ELSE /\ thread' = [thread EXCEPT ![w] =
                   [pc |-> "panicked", node |-> n,
                    last |-> [op |-> "process_preorder", node |-> n, value |-> "panic"]]]
            /\ UNCHANGED <<stylo_element_data, stylo_borrow>>

\* recalc_style_at computes the element's style into data and notes the
\* children it wants visited; unset_dirty_descendants does nothing; data is
\* dropped as process_preorder returns.
process_preorder_recalc(w, n, v, noted) ==
    /\ InCall(w, "process_preorder", n)
    /\ noted \subseteq traversal_children(n)
    /\ stylo_element_data' =
          [stylo_element_data EXCEPT ![n] = recalc_style_at_data(@, v)]
    /\ recalculated' = recalculated \cup {n}
    /\ worklist' = worklist \cup noted
    /\ stylo_borrow' = [stylo_borrow EXCEPT ![n] = FreeCell]
    /\ thread' = [thread EXCEPT ![w] =
           [pc |-> "idle", node |-> n,
            last |-> [op |-> "process_preorder", node |-> n, value |-> "done"]]]
    /\ UNCHANGED notTraversal

NextTraversal ==
    \E w \in Workers, n \in NodeIds :
        \/ process_preorder_enter(w, n)
        \/ \E v \in DataValues, noted \in SUBSET NodeIds :
              process_preorder_recalc(w, n, v, noted)

\* A parsed document: node 0 is the document, node 1 the root element, the
\* rest any variant a document holds.  Elements may carry the style data of
\* an earlier pass; the engine starts the traversal at the root element.
InitTraversal ==
    /\ \E kinds \in [NodeIds -> NodeKinds] :
          /\ kinds[0] = "Document" /\ kinds[1] = "Element"
          /\ \A n \in NodeIds \ {0} : kinds[n] # "Document"
          /\ raw_dom_data = kinds
    /\ \E par \in DomTrees : InitDom(par)
    /\ layout_parent = [n \in NodeIds |-> None]
    /\ layout_children = [n \in NodeIds |-> None]
    /\ final_layout = [n \in NodeIds |-> Layout(0, 0, 0, 0)]
    /\ scroll_offset = [n \in NodeIds |-> Scroll(0, 0)]
    /\ ret = NoCall
    /\ \E slots \in [NodeIds -> {None} \cup {Some(v) : v \in DataValues}] :
          /\ \A n \in NodeIds : slots[n].some => raw_dom_data[n] = "Element"
          /\ stylo_element_data = slots
    /\ stylo_borrow = [n \in NodeIds |-> FreeCell]
    /\ thread = [w \in Workers |-> Idle]
    /\ held = [w \in Workers |-> NoGuards]
    /\ snapshot_handled = [n \in NodeIds |-> FALSE]
    /\ selector_flags = [n \in NodeIds |-> {}]
    /\ worklist = {1}
    /\ recalculated = {}
    /\ InitPlainElements
    /\ selector_flags_borrow = [n \in NodeIds |-> FALSE]
    /\ flags_thread = [w \in Workers |-> [pc |-> "idle"]]

SpecTraversal == InitTraversal /\ [][NextTraversal]_vars

\* -------------------------------------------------- Snapshot coordination

notSnapshot == <<treeVars, ret, stylo_element_data, stylo_borrow, held,
                 selector_flags, travVars, flagVars>>

\* Mutant of handled_snapshot_load: the flag is not read.
handled_snapshot_load_stale(flag) == FALSE

\* handled_snapshot: self.node.snapshot_handled.load(Ordering::SeqCst)
handled_snapshot_load(flag) == flag

\* Mutant of set_handled_snapshot_store: the flag is flipped.
set_handled_snapshot_store_toggle(flag) == ~flag

\* set_handled_snapshot: self.node.snapshot_handled.store(true, Ordering::SeqCst)
set_handled_snapshot_store(flag) == TRUE

\* A worker calls handled_snapshot.  Told that the snapshot is not handled
\* yet, it goes on to consume it and will then call set_handled_snapshot.
handled_snapshot(w, n) ==
    /\ thread[w].pc = "idle"
    /\ IsElement(n)
    /\ LET v == handled_snapshot_load(snapshot_handled[n])
       IN  thread' = [thread EXCEPT ![w] =
               [pc |-> IF v THEN "idle" ELSE "consume", node |-> n,
                last |-> [op |-> "handled_snapshot", node |-> n, value |-> v]]]
    /\ UNCHANGED <<snapshot_handled, notSnapshot>>

\* A worker calls set_handled_snapshot: after consuming the snapshot, or at
\* any other time.
set_handled_snapshot(w, n) ==
    /\ \/ thread[w].pc = "idle"
       \/ thread[w].pc = "consume" /\ thread[w].node = n
    /\ IsElement(n)
    /\ snapshot_handled' =
          [snapshot_handled EXCEPT ![n] = set_handled_snapshot_store(@)]
    /\ thread' = [thread EXCEPT ![w] =
           [pc |-> "idle", node |-> n,
            last |-> [op |-> "set_handled_snapshot", node |-> n, value |-> "unit"]]]
    /\ UNCHANGED notSnapshot

NextSnapshot ==
    \E w \in Workers, n \in NodeIds :
        \/ handled_snapshot(w, n)
        \/ set_handled_snapshot(w, n)

\* Elements with snapshots no worker has handled yet.
InitSnapshot ==
    /\ raw_dom_data = AllElements
    /\ InitDom(DomChain)
    /\ layout_parent = [n \in NodeIds |-> None]
    /\ layout_children = [n \in NodeIds |-> None]
    /\ final_layout = [n \in NodeIds |-> Layout(0, 0, 0, 0)]
    /\ scroll_offset = [n \in NodeIds |-> Scroll(0, 0)]
    /\ ret = NoCall
    /\ InitData
    /\ InitRest

SpecSnapshot == InitSnapshot /\ [][NextSnapshot]_vars

\* ------------------------------------------------ Selector-flag bookkeeping

notFlags == <<treeVars, dataVars, snapshot_handled, travVars, flagVars>>

\* ElementSelectorFlags: the bits for_self() keeps and the bits for_parent() keeps.
SelfDirectedFlags == {"HAS_EMPTY_SELECTOR", "ANCHORS_RELATIVE_SELECTOR"}
ParentDirectedFlags == {"HAS_SLOW_SELECTOR", "HAS_EDGE_CHILD_SELECTOR"}
SelectorFlags == SelfDirectedFlags \cup ParentDirectedFlags

\* flags.for_self()
for_self(flags) == flags \cap SelfDirectedFlags

\* flags.for_parent()
for_parent(flags) == flags \cap ParentDirectedFlags

\* Mutant of flags_or_assign: the flags are assigned, not OR'd in.
flags_assign(old, new) == new

\* *selector_flags.borrow_mut() |= new
flags_or_assign(old, new) == old \cup new

\* TNode::parent_node
parent_node(n) == parent[n]

\* TElement::has_selector_flags
has_selector_flags(n, flags) == flags \subseteq selector_flags[n]

\* The flags of every node after apply_selector_flags(flags) on node n: the
\* first statement writes n's flags, the second the parent's.
apply_selector_flags_self(sf, n, flags) ==
    IF for_self(flags) # {}
    THEN [sf EXCEPT ![n] = flags_or_assign(@, for_self(flags))]
    ELSE sf

apply_selector_flags_parent(sf, n, flags) ==
    IF for_parent(flags) # {} /\ parent_node(n).some
    THEN [sf EXCEPT ![parent_node(n).val] = flags_or_assign(@, for_self(flags))]
    ELSE sf

\* Element::apply_selector_flags, called by one matching pass at a time.
apply_selector_flags(n, flags) ==
    /\ IsElement(n)
    /\ selector_flags' =
          apply_selector_flags_parent(
              apply_selector_flags_self(selector_flags, n, flags), n, flags)
    /\ ret' = [op |-> "apply_selector_flags", node |-> n, flags |-> flags]
    /\ UNCHANGED notFlags

NextFlags ==
    \E n \in NodeIds, flags \in SUBSET SelectorFlags : apply_selector_flags(n, flags)

\* Any DOM of elements under the document, no flag set yet.
InitFlags ==
    /\ raw_dom_data = AllElements
    /\ \E par \in DomTrees : InitDom(par)
    /\ layout_parent = [n \in NodeIds |-> None]
    /\ layout_children = [n \in NodeIds |-> None]
    /\ final_layout = [n \in NodeIds |-> Layout(0, 0, 0, 0)]
    /\ scroll_offset = [n \in NodeIds |-> Scroll(0, 0)]
    /\ ret = NoCall
    /\ InitData
    /\ InitRest

SpecFlags == InitFlags /\ [][NextFlags]_vars

\* ------------------------------- apply_selector_flags from several workers
\* Each `*cell.borrow_mut() |= f` is a borrow_mut() on the node's cell, the
\* OR through the guard, and the drop of the guard at the end of the
\* statement; other workers run in between.  borrow_mut() does not wait: it
\* panics when a guard on the cell is alive.

notFlagsPar == <<treeVars, dataVars, ret, snapshot_handled, travVars>>

\* selector_flags.borrow_mut() succeeds only on a cell with no live guard.
flags_cell_can_borrow_mut(busy) == ~busy

FlagsAt(w, pc) == flags_thread[w].pc = pc

FlagsGoto(w, pc) == flags_thread' = [flags_thread EXCEPT ![w].pc = pc]

\* The statement of worker w borrows the cell of node target, or panics.
flags_borrow_mut(w, target, pc) ==
    IF flags_cell_can_borrow_mut(selector_flags_borrow[target])
    THEN /\ selector_flags_borrow' = [selector_flags_borrow EXCEPT ![target] = TRUE]
         /\ FlagsGoto(w, pc)
    ELSE /\ FlagsGoto(w, "panicked")
         /\ UNCHANGED selector_flags_borrow

\* Worker w enters apply_selector_flags(flags) on element n and reaches the
\* borrow_mut() of the first statement (skipped when self_flags is empty).
apply_self_borrow(w, n, flags) ==
    /\ FlagsAt(w, "idle")
    /\ IsElement(n)
    /\ LET entered == [flags_thread EXCEPT ![w] =
                          [pc |-> "parent", node |-> n, flags |-> flags]]
       IN  IF for_self(flags) # {}
           THEN IF flags_cell_can_borrow_mut(selector_flags_borrow[n])
                THEN /\ selector_flags_borrow' = [selector_flags_borrow EXCEPT ![n] = TRUE]
                     /\ flags_thread' = [entered EXCEPT ![w].pc = "self_write"]
                ELSE /\ flags_thread' = [entered EXCEPT ![w].pc = "panicked"]
                     /\ UNCHANGED selector_flags_borrow
           ELSE /\ flags_thread' = entered
                /\ UNCHANGED selector_flags_borrow
    /\ UNCHANGED <<selector_flags, notFlagsPar>>

\* ... |= self_flags; the guard is dropped.
apply_self_write(w) ==
    /\ FlagsAt(w, "self_write")
    /\ selector_flags' =
          apply_selector_flags_self(selector_flags, flags_thread[w].node,
                                    flags_thread[w].flags)
    /\ selector_flags_borrow' =
          [selector_flags_borrow EXCEPT ![flags_thread[w].node] = FALSE]
    /\ FlagsGoto(w, "parent")
    /\ UNCHANGED notFlagsPar

\* The second statement: with parent_flags and a parent, borrow_mut() on the
\* parent's cell; otherwise the call returns.
apply_parent_borrow(w) ==
    /\ FlagsAt(w, "parent")
    /\ LET n == flags_thread[w].node
       IN  IF for_parent(flags_thread[w].flags) # {} /\ parent_node(n).some
           THEN flags_borrow_mut(w, parent_node(n).val, "parent_write")
           ELSE /\ FlagsGoto(w, "done")
                /\ UNCHANGED selector_flags_borrow
    /\ UNCHANGED <<selector_flags, notFlagsPar>>

\* ... |= self_flags on the parent; the guard is dropped and the call returns.
apply_parent_write(w) ==
    /\ FlagsAt(w, "parent_write")
    /\ selector_flags' =
          apply_selector_flags_parent(selector_flags, flags_thread[w].node,
                                      flags_thread[w].flags)
    /\ selector_flags_borrow' =
          [selector_flags_borrow
              EXCEPT ![parent_node(flags_thread[w].node).val] = FALSE]
    /\ FlagsGoto(w, "done")
    /\ UNCHANGED notFlagsPar

NextFlagsPar ==
    \E w \in Workers :
        \/ \E n \in NodeIds, flags \in SUBSET SelectorFlags :
              apply_self_borrow(w, n, flags)
        \/ apply_self_write(w)
        \/ apply_parent_borrow(w)
        \/ apply_parent_write(w)

\* Each worker makes one call.
SpecFlagsPar == InitFlags /\ [][NextFlagsPar]_vars

\* ------------------------------------------------------ sibling navigation

notSiblings == <<treeVars, dataVars, snapshot_handled, selector_flags, travVars,
                 flagVars>>

\* The width of usize in the model (64 in the source's targets).
UsizeWidth == 16

\* What a call comes to: a returned value, or a panic.
Ok(v) == [panic |-> FALSE, value |-> v]
Abort == [panic |-> TRUE, value |-> None]

\* children.iter().position(|id| *id == self.node.id), zero-based
position(list, id) ==
    IF \E i \in 1 .. Len(list) : list[i] = id
    THEN Some((CHOOSE i \in 1 .. Len(list) :
                  list[i] = id /\ \A j \in 1 .. (i - 1) : list[j] # id) - 1)
    ELSE None

\* Handle::child_index
child_index(n) ==
    IF parent[n].some THEN position(children[parent[n].val], n) ELSE None

\* Option::unwrap_or
unwrap_or(opt, default) == IF opt.some THEN opt.val ELSE default

\* Vec::get(i), zero-based
get(list, i) == IF i < Len(list) THEN Some(list[i + 1]) ELSE None

\* a - b on usize: with overflow checks (the debug profile) a result below
\* zero panics, without them (the release profile) it wraps.
usize_sub(a, b, overflow_checks) ==
    IF a >= b THEN Ok(a - b)
    ELSE IF overflow_checks THEN Abort
    ELSE Ok((a - b) % (2 ^ UsizeWidth))

\* Handle::forward
forward(n, k) ==
    LET child_idx == unwrap_or(child_index(n), 0)
    IN  IF ~parent[n].some THEN Ok(None)
        ELSE Ok(get(children[parent[n].val], child_idx + k))

\* Handle::backward
backward(n, k, overflow_checks) ==
    LET child_idx == unwrap_or(child_index(n), 0)
        at == usize_sub(child_idx, k, overflow_checks)
    IN  IF ~parent[n].some THEN Ok(None)
        ELSE IF at.panic THEN Abort
        ELSE Ok(get(children[parent[n].val], at.value))

\* NodeInfo::is_element
is_element(n) == raw_dom_data[n] = "Element"

\* The loop of prev_sibling_element, from its counter k on.
RECURSIVE prev_sibling_element_from(_, _, _)
prev_sibling_element_from(n, k, overflow_checks) ==
    LET node == backward(n, k, overflow_checks)
    IN  IF node.panic THEN Abort
        ELSE IF ~node.value.some THEN Ok(None)
        ELSE IF is_element(node.value.val) THEN Ok(node.value)
        ELSE prev_sibling_element_from(n, k + 1, overflow_checks)

\* TNode::prev_sibling_element
prev_sibling_element(n, overflow_checks) ==
    prev_sibling_element_from(n, 1, overflow_checks)

\* The loop of next_sibling_element, from its counter k on.
RECURSIVE next_sibling_element_from(_, _)
next_sibling_element_from(n, k) ==
    LET node == forward(n, k)
    IN  IF ~node.value.some THEN Ok(None)
        ELSE IF is_element(node.value.val) THEN Ok(node.value)
        ELSE next_sibling_element_from(n, k + 1)

\* TNode::next_sibling_element
next_sibling_element(n) == next_sibling_element_from(n, 1)

\* The distances forward and backward are called with.
Distances == 0 .. 3

SiblingReturn(op, n, k, checks, outcome) ==
    /\ ret' = [op |-> op, node |-> n, n |-> k, overflow_checks |-> checks,
               panic |-> outcome.panic, value |-> outcome.value]
    /\ UNCHANGED notSiblings

Forward(n, k, checks) ==
    /\ ret = NoCall
    /\ SiblingReturn("forward", n, k, checks, forward(n, k))

Backward(n, k, checks) ==
    /\ ret = NoCall
    /\ SiblingReturn("backward", n, k, checks, backward(n, k, checks))

PrevSiblingElement(n, checks) ==
    /\ ret = NoCall
    /\ SiblingReturn("prev_sibling_element", n, 0, checks,
                     prev_sibling_element(n, checks))

NextSiblingElement(n, checks) ==
    /\ ret = NoCall
    /\ SiblingReturn("next_sibling_element", n, 0, checks, next_sibling_element(n))

\* Element::is_root
is_root(n) ==
    LET grandparent == IF parent_node(n).some
                       THEN parent_node(parent_node(n).val)
                       ELSE None
    IN  ~grandparent.some

IsRoot(n, checks) ==
    /\ ret = NoCall
    /\ SiblingReturn("is_root", n, 0, checks, Ok(Some(is_root(n))))

NextSiblings ==
    \E n \in NodeIds, checks \in BOOLEAN :
        \/ IsRoot(n, checks)
        \/ \E k \in Distances : Forward(n, k, checks)
        \/ \E k \in Distances : Backward(n, k, checks)
        \/ PrevSiblingElement(n, checks)
        \/ NextSiblingElement(n, checks)

\* Any DOM under the document, its nodes of any kind.
InitSiblings ==
    /\ raw_dom_data \in [NodeIds -> NodeKinds]
    /\ \A n \in NodeIds : raw_dom_data[n] = "Document" <=> n = 0
    /\ \E par \in DomTrees : InitDom(par)
    /\ layout_parent = [n \in NodeIds |-> None]
    /\ layout_children = [n \in NodeIds |-> None]
    /\ final_layout = [n \in NodeIds |-> Layout(0, 0, 0, 0)]
    /\ scroll_offset = [n \in NodeIds |-> Scroll(0, 0)]
    /\ ret = NoCall
    /\ InitData
    /\ InitRest

SpecSiblings == InitSiblings /\ [][NextSiblings]_vars

\* ------------------------------------------------------- selector matching
\* A string is the sequence of its chars.  str::len() counts UTF-8 bytes,
\* chars().nth() counts chars: the two differ on a char outside ASCII.

notMatching == <<raw_dom_data, parent, children, layout_parent, layout_children,
                 final_layout, scroll_offset, element_data, element_state,
                 dataVars, snapshot_handled, selector_flags, travVars, flagVars>>

\* The longest string drawn char by char.
MaxStrLen == 3

Strings(alphabet, len) == UNION {[1 .. k -> alphabet] : k \in 0 .. len}

\* char::len_utf8
len_utf8(c) == IF c = "é" THEN 2 ELSE 1

\* str::len: the length in bytes
RECURSIVE str_len(_)
str_len(s) == IF s = <<>> THEN 0 ELSE len_utf8(Head(s)) + str_len(Tail(s))

\* str::chars().nth(k), zero-based
chars_nth(s, k) == IF k < Len(s) THEN Some(s[k + 1]) ELSE None

\* str::starts_with
starts_with(s, prefix) ==
    Len(prefix) <= Len(s) /\ SubSeq(s, 1, Len(prefix)) = prefix

\* str::ends_with
ends_with(s, suffix) ==
    Len(suffix) <= Len(s) /\ SubSeq(s, Len(s) - Len(suffix) + 1, Len(s)) = suffix

\* str::contains
contains(s, sub) ==
    \E i \in 0 .. (Len(s) - Len(sub)) : SubSeq(s, i + 1, i + Len(sub)) = sub

\* char::is_ascii_whitespace
AsciiWhitespace == {" ", "\t", "\n", "\f", "\r"}

\* str::split_ascii_whitespace: the maximal runs of non-whitespace chars.
RECURSIVE split_from(_, _, _)
split_from(s, i, word) ==
    LET done == IF word = <<>> THEN <<>> ELSE <<word>>
    IN  IF i > Len(s) THEN done
        ELSE IF s[i] \in AsciiWhitespace THEN done \o split_from(s, i + 1, <<>>)
        ELSE split_from(s, i + 1, Append(word, s[i]))

\* Mutant of split_ascii_whitespace: the attribute taken as one token.
split_nothing(s) == <<s>>

split_ascii_whitespace(s) == split_from(s, 1, <<>>)

\* self.node.raw_dom_data.attr(name): None on a node that is no element.
attr(n, name) ==
    IF element_data[n].some THEN element_data[n].val.attrs[name] ELSE None

AttrSelectorOperators ==
    {"Equal", "Includes", "DashMatch", "Prefix", "Substring", "Suffix"}

\* The DashMatch arm of attr_matches.
dash_match(attr_value, value) ==
    /\ starts_with(attr_value, value)
    /\ \/ str_len(attr_value) = str_len(value)
       \/ chars_nth(attr_value, str_len(value)) = Some("-")

\* Element::attr_matches; operation is "Exists" or one of the operators.
attr_matches(n, local_name, operation, value) ==
    LET found == attr(n, local_name)
        attr_value == found.val
    IN  IF ~found.some THEN FALSE
        ELSE CASE operation = "Exists" -> TRUE
               [] operation = "Equal" -> attr_value = value
               [] operation = "Includes" ->
                     \E i \in DOMAIN split_ascii_whitespace(attr_value) :
                         split_ascii_whitespace(attr_value)[i] = value
               [] operation = "DashMatch" -> dash_match(attr_value, value)
               [] operation = "Prefix" -> starts_with(attr_value, value)
               [] operation = "Substring" -> contains(attr_value, value)
               [] operation = "Suffix" -> ends_with(attr_value, value)

\* The values of the lang attribute, and the operands compared with it.
LangChars == {"e", "-", "é"}
LangValues ==
    Strings(LangChars, MaxStrLen) \cup
        {<<"e", "n">>, <<"e", "n", "-", "U", "S">>}

AttrMatches(n, local_name, operation, value) ==
    /\ ret = NoCall
    /\ ret' = [op |-> "attr_matches", node |-> n, local_name |-> local_name,
               operation |-> operation, operand |-> value,
               value |-> attr_matches(n, local_name, operation, value)]
    /\ UNCHANGED notMatching

NextAttr ==
    \E n \in {0, 1}, local_name \in {"lang", "class"} :
        \/ AttrMatches(n, local_name, "Exists", <<>>)
        \/ \E operation \in AttrSelectorOperators, value \in LangValues :
              AttrMatches(n, local_name, operation, value)

\* The chain DOM of <div>s under the document; element 1 carries the
\* attributes given.
InitMatching(attrs, name, checked, state) ==
    /\ raw_dom_data = AllElements
    /\ InitDom(DomChain)
    /\ layout_parent = [n \in NodeIds |-> None]
    /\ layout_children = [n \in NodeIds |-> None]
    /\ final_layout = [n \in NodeIds |-> Layout(0, 0, 0, 0)]
    /\ scroll_offset = [n \in NodeIds |-> Scroll(0, 0)]
    /\ element_data =
          [n \in NodeIds |->
              IF n = 0 THEN None
              ELSE IF n = 1 THEN Some([name |-> name, attrs |-> attrs,
                                       checkbox_input_checked |-> checked])
              ELSE Some(PlainElement)]
    /\ element_state = [n \in NodeIds |-> IF n = 1 THEN state ELSE {}]
    /\ ret = NoCall
    /\ InitData
    /\ InitCells

NoAttrs == [a \in AttrNames |-> None]

\* Element 1 with any lang attribute, or none.
InitAttr ==
    \E lang \in {None} \cup {Some(v) : v \in LangValues} :
        InitMatching([NoAttrs EXCEPT !["lang"] = lang], "div", None, {})

SpecAttr == InitAttr /\ [][NextAttr]_vars

\* ---------------------------------------------------------------- has_class

\* u8::to_ascii_lowercase, on the chars of the model
to_ascii_lowercase(c) ==
    CASE c = "A" -> "a"
      [] c = "B" -> "b"
      [] c = "C" -> "c"
      [] OTHER -> c

\* str::eq_ignore_ascii_case
eq_ignore_ascii_case(a, b) ==
    /\ Len(a) = Len(b)
    /\ \A i \in 1 .. Len(a) : to_ascii_lowercase(a[i]) = to_ascii_lowercase(b[i])

CaseSensitivities == {"CaseSensitive", "AsciiCaseInsensitive"}

\* CaseSensitivity::eq_atom
eq_atom(case_sensitivity, a, b) ==
    IF case_sensitivity = "CaseSensitive" THEN a = b
    ELSE eq_ignore_ascii_case(a, b)

\* The loop of has_class over the phemes, from the i-th on.
RECURSIVE has_class_from(_, _, _, _)
has_class_from(phemes, i, search_name, case_sensitivity) ==
    IF i > Len(phemes) THEN FALSE
    ELSE IF eq_atom(case_sensitivity, phemes[i], search_name) THEN TRUE
    ELSE has_class_from(phemes, i + 1, search_name, case_sensitivity)

\* Element::has_class
has_class(n, search_name, case_sensitivity) ==
    LET class_attr == attr(n, "class")
    IN  IF class_attr.some
        THEN has_class_from(split_ascii_whitespace(class_attr.val), 1,
                            search_name, case_sensitivity)
        ELSE FALSE

\* The values of the class attribute, and the names searched for.
ClassChars == {"a", "A", "b", " "}
ClassNames == Strings(ClassChars, MaxStrLen)
ClassValues == ClassNames \cup {<<"a", " ", "b", " ", "c">>}

HasClass(n, search_name, case_sensitivity) ==
    /\ ret = NoCall
    /\ ret' = [op |-> "has_class", node |-> n, search_name |-> search_name,
               case_sensitivity |-> case_sensitivity,
               value |-> has_class(n, search_name, case_sensitivity)]
    /\ UNCHANGED notMatching

NextClass ==
    \E n \in {0, 1}, search_name \in ClassNames, cs \in CaseSensitivities :
        HasClass(n, search_name, cs)

\* Element 1 with any class attribute, or none.
InitClass ==
    \E class \in {None} \cup {Some(v) : v \in ClassValues} :
        InitMatching([NoAttrs EXCEPT !["class"] = class], "div", None, {})

SpecClass == InitClass /\ [][NextClass]_vars

\* ----------------------------------------------------------- pseudo-classes

\* NonTSPseudoClass, every variant the match names.
NonTSPseudoClasses ==
    {"Active", "AnyLink", "Checked", "Valid", "Invalid", "Defined", "Disabled",
     "Enabled", "Focus", "FocusWithin", "FocusVisible", "Fullscreen", "Hover",
     "Indeterminate", "Lang", "CustomState", "Link", "PlaceholderShown",
     "ReadWrite", "ReadOnly", "ServoNonZeroBorder", "Target", "Visited",
     "Autofill", "Default", "InRange", "Modal", "Optional", "OutOfRange",
     "PopoverOpen", "Required", "UserInvalid", "UserValid"}

ElementStates == {"HOVER", "FOCUS"}

\* self.node.raw_dom_data.downcast_element()
downcast_element(n) == element_data[n]

\* Mutant of link_with_href: the href attribute is not asked for.
link_by_name(elem) == elem.name = "a" \/ elem.name = "area"

\* The closure of the AnyLink and Link arms.
link_with_href(elem) ==
    (elem.name = "a" \/ elem.name = "area") /\ elem.attrs["href"].some

\* Element::match_non_ts_pseudo_class
match_non_ts_pseudo_class(n, pseudo_class) ==
    CASE pseudo_class \in {"AnyLink", "Link"} ->
            IF downcast_element(n).some
            THEN link_with_href(downcast_element(n).val)
            ELSE FALSE
      [] pseudo_class = "Checked" ->
            IF downcast_element(n).some
            THEN unwrap_or(downcast_element(n).val.checkbox_input_checked, FALSE)
            ELSE FALSE
      [] pseudo_class = "Focus" -> "FOCUS" \in element_state[n]
      [] pseudo_class = "Hover" -> "HOVER" \in element_state[n]
      [] OTHER -> FALSE

MatchNonTsPseudoClass(n, pseudo_class) ==
    /\ ret = NoCall
    /\ ret' = [op |-> "match_non_ts_pseudo_class", node |-> n,
               pseudo_class |-> pseudo_class,
               value |-> match_non_ts_pseudo_class(n, pseudo_class)]
    /\ UNCHANGED notMatching

NextPseudo ==
    \E n \in NodeIds, pseudo_class \in NonTSPseudoClasses :
        MatchNonTsPseudoClass(n, pseudo_class)

\* Node 1 is an element of any name, with or without href, a checkbox or
\* not, or it is a text node; it is in any state.  Only an <input> can be a
\* checkbox.
InitPseudo ==
    /\ \E kind \in {"Element", "Text"} :
          raw_dom_data = [AllElements EXCEPT ![1] = kind]
    /\ InitDom(DomChain)
    /\ layout_parent = [n \in NodeIds |-> None]
    /\ layout_children = [n \in NodeIds |-> None]
    /\ final_layout = [n \in NodeIds |-> Layout(0, 0, 0, 0)]
    /\ scroll_offset = [n \in NodeIds |-> Scroll(0, 0)]
    /\ \E name \in {"a", "area", "input", "div"},
          href \in {None, Some(<<>>), Some(<<"e">>)},
          checked \in {None, Some(FALSE), Some(TRUE)} :
          /\ checked.some => name = "input"
          /\ raw_dom_data[1] # "Element" => (name = "div" /\ ~href.some)
          /\ element_data =
                [n \in NodeIds |->
                    IF raw_dom_data[n] # "Element" THEN None
                    ELSE IF n = 1
                    THEN Some([name |-> name,
                               attrs |-> [NoAttrs EXCEPT !["href"] = href],
                               checkbox_input_checked |-> checked])
                    ELSE Some(PlainElement)]
    /\ \E state \in SUBSET ElementStates, doc \in SUBSET ElementStates :
          element_state = [n \in NodeIds |->
                              IF n = 1 THEN state ELSE IF n = 0 THEN doc ELSE {}]
    /\ ret = NoCall
    /\ InitData
    /\ InitCells

SpecPseudo == InitPseudo /\ [][NextPseudo]_vars

\* ------------------------------------------------------ presentational hints
\* synthesize_presentational_hints_for_legacy_attributes and the two parsers
\* nested in it.  A &str is sliced by byte offsets; a slice whose end falls
\* inside a char panics.

\* The longest legacy attribute value drawn char by char.
MaxAttrLen == 4

\* The value of a hexadecimal digit (char::to_digit(16)), None for another char.
to_digit_16(c) ==
    CASE c = "0" -> Some(0)  [] c = "1" -> Some(1)  [] c = "2" -> Some(2)
      [] c = "3" -> Some(3)  [] c = "4" -> Some(4)  [] c = "5" -> Some(5)
      [] c = "6" -> Some(6)  [] c = "7" -> Some(7)  [] c = "8" -> Some(8)
      [] c = "9" -> Some(9)
      [] c \in {"a", "A"} -> Some(10)  [] c \in {"b", "B"} -> Some(11)
      [] c \in {"c", "C"} -> Some(12)  [] c \in {"d", "D"} -> Some(13)
      [] c \in {"e", "E"} -> Some(14)  [] c \in {"f", "F"} -> Some(15)
      [] OTHER -> None

\* The digits of s read in base 16, most significant first.
RECURSIVE radix_16_value(_)
radix_16_value(s) ==
    IF s = <<>> THEN 0
    ELSE 16 * radix_16_value(SubSeq(s, 1, Len(s) - 1)) + to_digit_16(s[Len(s)]).val

\* u8::from_str_radix(s, 16).ok(): a leading '+' is accepted, a lone sign, an
\* empty string, another char and a value above 255 are not.
u8_from_str_radix_16(s) ==
    LET digits == IF s # <<>> /\ s[1] = "+" THEN Tail(s) ELSE s
    IN  IF digits = <<>> THEN None
        ELSE IF \E i \in 1 .. Len(digits) : ~to_digit_16(digits[i]).some THEN None
        ELSE IF radix_16_value(digits) > 255 THEN None
        ELSE Some(radix_16_value(digits))

\* The byte offsets at which a char of s begins, and the end of s.
char_boundaries(s) == {str_len(SubSeq(s, 1, k)) : k \in 0 .. Len(s)}

\* The number of chars of s before byte offset at, a char boundary.
chars_before(s, at) == CHOOSE k \in 0 .. Len(s) : str_len(SubSeq(s, 1, k)) = at

\* &s[from..to]
slice(s, from, to) ==
    IF from \in char_boundaries(s) /\ to \in char_boundaries(s) /\ from <= to
    THEN Ok(SubSeq(s, chars_before(s, from) + 1, chars_before(s, to)))
    ELSE [panic |-> TRUE, value |-> <<>>]

\* r, g and b parsed from slices of width bytes each.
parse_channels(value, width) ==
    LET r == slice(value, 0, width)
        g == slice(value, width, 2 * width)
        b == slice(value, 2 * width, 3 * width)
    IN  IF r.panic THEN Abort
        ELSE IF ~u8_from_str_radix_16(r.value).some THEN Ok(None)
        ELSE IF g.panic THEN Abort
        ELSE IF ~u8_from_str_radix_16(g.value).some THEN Ok(None)
        ELSE IF b.panic THEN Abort
        ELSE IF ~u8_from_str_radix_16(b.value).some THEN Ok(None)
        ELSE Ok(Some(<<u8_from_str_radix_16(r.value).val,
                       u8_from_str_radix_16(g.value).val,
                       u8_from_str_radix_16(b.value).val, 1>>))

\* parse_color_attr; the alpha 1.0 is written 1.
parse_color_attr(value) ==
    IF ~starts_with(value, <<"#">>) THEN Ok(None)
    ELSE LET rest == Tail(value)
         IN  IF str_len(rest) = 3 THEN parse_channels(rest, 1)
             ELSE IF str_len(rest) = 6 THEN parse_channels(rest, 2)
             ELSE Ok(None)

\* The decimal digits of s as a number.
RECURSIVE decimal_value(_)
decimal_value(s) ==
    IF s = <<>> THEN 0
    ELSE 10 * decimal_value(SubSeq(s, 1, Len(s) - 1)) + to_digit_16(s[Len(s)]).val

DecimalDigits == {"0", "1", "2", "3", "4", "5", "6", "7", "8", "9"}

\* value.parse::<f32>().ok() on strings of signs, decimal digits and the
\* chars of the suffixes: an optional sign and at least one digit.  (Points,
\* exponents, inf and NaN need chars the model does not draw.)
parse_f32(s) ==
    LET signed == s # <<>> /\ s[1] \in {"+", "-"}
        digits == IF signed THEN Tail(s) ELSE s
    IN  IF digits = <<>> \/ \E i \in 1 .. Len(digits) : digits[i] \notin DecimalDigits
        THEN None
        ELSE IF signed /\ s[1] = "-" THEN Some(0 - decimal_value(digits))
        ELSE Some(decimal_value(digits))

\* str::strip_suffix
strip_suffix(s, suffix) ==
    IF ends_with(s, suffix) THEN Some(SubSeq(s, 1, Len(s) - Len(suffix))) ELSE None

\* LengthPercentage::Length(NoCalcLength::Absolute(AbsoluteLength::Px(val)))
Px(val) == [kind |-> "Length", number |-> val]

\* LengthPercentage::Percentage(Percentage(val / 100.0)): number is val, the
\* numerator over 100.
PercentageOver100(val) == [kind |-> "Percentage", number |-> val]

\* parse_size_attr
parse_size_attr(value) ==
    LET px == strip_suffix(value, <<"p", "x">>)
        percent == strip_suffix(value, <<"%">>)
    IN  IF px.some
        THEN IF parse_f32(px.val).some THEN Some(Px(parse_f32(px.val).val)) ELSE None
        ELSE IF percent.some
        THEN IF parse_f32(percent.val).some
             THEN Some(PercentageOver100(parse_f32(percent.val).val))
             ELSE None
        ELSE IF parse_f32(value).some THEN Some(Px(parse_f32(value).val))
        ELSE None

\* NonNegative(width): the wrapper holds the value as given.
non_negative(lp) == lp

Declaration(property, value) == [property |-> property, value |-> value]

AlignKeywords ==
    {<<"l", "e", "f", "t">>, <<"r", "i", "g", "h", "t">>, <<"c", "e", "n", "t", "e", "r">>}

\* The body of the loop over elem.attrs() for one attribute: the
\* declarations it pushes, or the panic it ends in.
hints_of_attr(name, value) ==
    CASE name = "align" ->
            Ok(IF value \in AlignKeywords
               THEN <<Declaration("TextAlign", value)>> ELSE <<>>)
      [] name = "width" ->
            Ok(IF parse_size_attr(value).some
               THEN <<Declaration("Width", non_negative(parse_size_attr(value).val))>>
               ELSE <<>>)
      [] name = "height" ->
            Ok(IF parse_size_attr(value).some
               THEN <<Declaration("Height", non_negative(parse_size_attr(value).val))>>
               ELSE <<>>)
      [] name = "bgcolor" ->
            IF parse_color_attr(value).panic THEN [panic |-> TRUE, value |-> <<>>]
            ELSE Ok(IF parse_color_attr(value).value.some
                    THEN <<Declaration("BackgroundColor",
                                       parse_color_attr(value).value.val)>>
                    ELSE <<>>)
      [] OTHER -> Ok(<<>>)

\* elem.attrs(), in the order the model keeps them.
AttrOrder == <<"class", "lang", "href", "align", "width", "height", "bgcolor">>

\* The loop over elem.attrs() from the i-th attribute on, hints pushed so far.
RECURSIVE synthesize_from(_, _, _)
synthesize_from(elem, i, hints) ==
    IF i > Len(AttrOrder) THEN Ok(hints)
    ELSE LET found == elem.attrs[AttrOrder[i]]
             pushed == hints_of_attr(AttrOrder[i], found.val)
         IN  IF ~found.some THEN synthesize_from(elem, i + 1, hints)
             ELSE IF pushed.panic THEN [panic |-> TRUE, value |-> hints]
             ELSE synthesize_from(elem, i + 1, hints \o pushed.value)

\* synthesize_presentational_hints_for_legacy_attributes: nothing on a node
\* that is no element.
synthesize_presentational_hints_for_legacy_attributes(n) ==
    IF ~downcast_element(n).some THEN Ok(<<>>)
    ELSE synthesize_from(downcast_element(n).val, 1, <<>>)

SynthesizeHints(n) ==
    /\ ret = NoCall
    /\ LET out == synthesize_presentational_hints_for_legacy_attributes(n)
       IN  ret' = [op |-> "synthesize_presentational_hints", node |-> n,
                   panic |-> out.panic, value |-> out.value]
    /\ UNCHANGED notMatching

NextHints == \E n \in {0, 1} : SynthesizeHints(n)

\* The values of bgcolor: every short string over ColorChars, strings of '#'
\* and three groups of one or two chars, and the examples.
ColorChars == {"#", "a", "1", "g", "+", "é"}
ColorGroups ==
    {<<"f", "f">>, <<"0", "0">>, <<"+", "f">>, <<"g", "1">>, <<"a">>, <<"é">>}
ColorValues ==
    Strings(ColorChars, MaxAttrLen) \cup
    {<<"#">> \o g[1] \o g[2] \o g[3] : g \in ColorGroups \X ColorGroups \X ColorGroups} \cup
    {<<"#", "a", "b", "c">>, <<"f", "f", "0", "0", "0", "0">>,
     <<"#", "f", "f", "0", "0", "0", "0", "0">>}

\* The values of width and height.
SizeChars == {"-", "5", "0", "p", "x", "%"}
SizeValues == Strings(SizeChars, MaxAttrLen)

AlignValues == AlignKeywords \cup {<<>>, <<"t", "o", "p">>}

\* Element 1 carries one legacy attribute, or none.
InitHints ==
    \E name \in {"align", "width", "height", "bgcolor"} :
        \E value \in {None} \cup
                    {Some(v) : v \in CASE name = "align" -> AlignValues
                                       [] name = "bgcolor" -> ColorValues
                                       [] OTHER -> SizeValues} :
            InitMatching([NoAttrs EXCEPT ![name] = value], "div", None, {})

SpecHints == InitHints /\ [][NextHints]_vars

\* -------------------------------------------------------- resource fetching
\* packages/dom/src/util.rs.  A URL is given by what the parsers make of it,
\* the outside world by how the read goes and by what the bytes are.

notFetch == notMatching

\* What a fetch comes to: Ok(value), Err(cause), or a panic.
FetchOk(v) == [tag |-> "Ok", value |-> v]
FetchErr(cause) == [tag |-> "Err", value |-> cause]
FetchPanic(message) == [tag |-> "Panic", value |-> message]

\* url: a data: URL (well-formed; refused by DataUrl::process; with a payload
\* that does not decode), a string Url::parse refuses, a file: URL, or
\* another URL, which is requested over the network.
UrlKinds == {"data", "data_malformed", "data_undecodable", "unparsable", "file", "http"}

\* The read: it succeeds, it cannot be started (no such file, no connection,
\* an error status), or it fails while the body is read.
ReadOutcomes == {"ok", "refused", "body_error"}

\* The bytes: whether they are UTF-8, decode as a raster image, parse as SVG.
Bodies == [utf8 : BOOLEAN, image : BOOLEAN, svg : BOOLEAN]

\* url.starts_with("data:")
is_data_url(url) == url \in {"data", "data_malformed", "data_undecodable"}

\* fetch_blob
fetch_blob(url, read, body) ==
    IF is_data_url(url)
    THEN IF url = "data_malformed"
         THEN FetchPanic("unwrap on Err")
         ELSE IF url = "data_undecodable" THEN FetchPanic("Invalid data url")
         ELSE FetchOk(body)
    ELSE IF url = "unparsable" THEN FetchErr("UrlParse")
    ELSE IF url = "file"
    THEN IF read = "ok" THEN FetchOk(body) ELSE FetchErr("FileIo")
    ELSE IF read = "refused" THEN FetchErr("Ureq")
    ELSE IF read = "body_error"
    THEN FetchPanic("unwrap on Err")
    ELSE FetchOk(body)

\* fetch_string
fetch_string(url, read, body) ==
    LET blob == fetch_blob(url, read, body)
    IN  IF blob.tag # "Ok" THEN blob
        ELSE IF blob.value.utf8 THEN FetchOk("String")
        ELSE FetchPanic("Invalid UTF8")

\* fetch_image
fetch_image(url, read, body) ==
    LET blob == fetch_blob(url, read, body)
    IN  IF blob.tag # "Ok" THEN blob
        ELSE IF blob.value.image THEN FetchOk("Image")
        ELSE IF blob.value.svg THEN FetchOk("Svg")
        ELSE FetchErr("SvgParse")

FetchReturn(op, url, read, body, outcome) ==
    /\ ret' = [op |-> op, url |-> url, read |-> read, body |-> body,
               tag |-> outcome.tag,
               cause |-> IF outcome.tag = "Ok" THEN "none" ELSE outcome.value]
    /\ UNCHANGED notFetch

FetchBlob(url, read, body) ==
    /\ ret = NoCall
    /\ FetchReturn("fetch_blob", url, read, body, fetch_blob(url, read, body))

FetchString(url, read, body) ==
    /\ ret = NoCall
    /\ FetchReturn("fetch_string", url, read, body, fetch_string(url, read, body))

FetchImage(url, read, body) ==
    /\ ret = NoCall
    /\ FetchReturn("fetch_image", url, read, body, fetch_image(url, read, body))

NextFetch ==
    \E url \in UrlKinds, read \in ReadOutcomes, body \in Bodies :
        \/ FetchBlob(url, read, body)
        \/ FetchString(url, read, body)
        \/ FetchImage(url, read, body)

InitFetch == InitMatching(NoAttrs, "div", None, {})

SpecFetch == InitFetch /\ [][NextFetch]_vars

\* ------------------------------------------- the geometric queries, run

InitGeom == (InitGeomScene \/ InitGeomChain) /\ InitData /\ InitRest

\* Handle::hit called on node n with a point of its parent's space.  The
\* queries are pure: a behaviour makes one and keeps what it returned.
Hit(n, x, y) ==
    /\ ret = NoCall
    /\ ret' = [op |-> "hit", node |-> n, x |-> x, y |-> y, value |-> hit(n, x, y)]
    /\ UNCHANGED notGeom

\* Handle::absolute_position called on node n.
AbsolutePosition(n, x, y) ==
    /\ ret = NoCall
    /\ ret' = [op |-> "absolute_position", node |-> n, x |-> x, y |-> y,
               value |-> absolute_position(n, x, y)]
    /\ UNCHANGED notGeom

NextGeom ==
    \E n \in NodeIds, x \in Points, y \in Points :
        \/ Hit(n, x, y)
        \/ AbsolutePosition(n, x, y)

SpecGeom == InitGeom /\ [][NextGeom]_vars

\* --------------------------------- a hit handed back to absolute_position

\* The first distance at which neighbouring f32 values are 2 apart.
Far == 2 ^ F32MantissaBits

\* A long document scrolled Far down, over any layout tree: a node is laid
\* out at the top of its parent's content or Far below it.
FarChoices == {Layout(0, 0, 3, 3), Layout(0, Far, 3, 3)}

InitGeomFar ==
    /\ raw_dom_data = AllElements
    /\ InitDom(DomChain)
    /\ InitLayoutTree
    /\ \E c \in [NodeIds \ {0} -> FarChoices] :
          final_layout = [n \in NodeIds |-> IF n = 0 THEN Layout(0, 0, 3, 3) ELSE c[n]]
    /\ scroll_offset = [n \in NodeIds |-> IF n = 0 THEN Scroll(0, Far) ELSE Scroll(0, 0)]
    /\ ret = NoCall

InitRoundTrip == (InitGeomScene \/ InitGeomChain \/ InitGeomFar) /\ InitData /\ InitRest

\* Handle::hit called on a node with no layout parent.
HitFromTop(n, x, y) ==
    /\ ret = NoCall
    /\ ~layout_parent_get(n).some
    /\ ret' = [op |-> "hit", node |-> n, x |-> x, y |-> y, value |-> hit(n, x, y)]
    /\ UNCHANGED notGeom

\* Handle::absolute_position called on the node a hit returned, with the
\* local point it returned.
AbsolutePositionOfHit ==
    /\ ret.op = "hit"
    /\ ret.value.some
    /\ ret' = [op |-> "absolute_position_of_hit", node |-> ret.node,
               x |-> ret.x, y |-> ret.y, hit |-> ret.value.val,
               value |-> absolute_position(ret.value.val.node_id,
                                           ret.value.val.x, ret.value.val.y)]
    /\ UNCHANGED notGeom

NextRoundTrip ==
    \/ \E n \in NodeIds, x \in Points, y \in Points : HitFromTop(n, x, y)
    \/ AbsolutePositionOfHit

SpecRoundTrip == InitRoundTrip /\ [][NextRoundTrip]_vars

\* ------------------------------------------------------------ C1, C2, C3

IsHit == ret.op = "hit"
IsAbs == ret.op = "absolute_position"

\* The point of the last call in the node's local space, as the claims put it.
RetLocalX == ret.x - final_layout[ret.node].location.x + scroll_offset[ret.node].x
RetLocalY == ret.y - final_layout[ret.node].location.y + scroll_offset[ret.node].y

RetOutside ==
    \/ RetLocalX < 0
    \/ RetLocalX > final_layout[ret.node].size.width + scroll_offset[ret.node].x
    \/ RetLocalY < 0
    \/ RetLocalY > final_layout[ret.node].size.height + scroll_offset[ret.node].y

\* C1: n.hit(x, y) returns no hit if and only if the translated point
\* (lx, ly) has lx < 0, lx > width + scroll_offset.x, ly < 0 or
\* ly > height + scroll_offset.y; every point inside or on the edge of the
\* scroll-extended box yields some hit.
C1_HitIffInScrollExtendedBox ==
    IsHit => (ret.value = None <=> RetOutside)

\* C1 witness: a hit in the scrolled overflow region, right on the far edge of
\* the extended box and beyond the unscrolled one.
C1_Witness ==
    /\ IsHit
    /\ scroll_offset[ret.node].x > 0
    /\ RetLocalX = final_layout[ret.node].size.width + scroll_offset[ret.node].x
    /\ ret.value.some

\* The entries of a node's layout_children, read off the state.
LayoutList(n) == IF layout_children[n].some THEN layout_children[n].val ELSE <<>>

RECURSIVE LayoutSubtree(_)
LayoutSubtree(n) ==
    {n} \cup UNION {LayoutSubtree(LayoutList(n)[i]) : i \in 1 .. Len(LayoutList(n))}

\* The positions in n's layout_children whose entry reports a hit at (lx, ly).
RetHittingChildren ==
    {i \in 1 .. Len(LayoutList(ret.node)) :
        hit(LayoutList(ret.node)[i], RetLocalX, RetLocalY).some}

\* C2: with (lx, ly) in bounds, n.hit returns the hit result of the first
\* entry of layout_children (list order) that reports a hit, and (n, lx, ly)
\* only if none does; the node hit is n or below n in the layout tree, never
\* one reached through the DOM children alone.
C2_FirstLayoutChildWins ==
    (IsHit /\ ~RetOutside) =>
        /\ ret.value.some
        /\ ret.value.val.node_id \in LayoutSubtree(ret.node)
        /\ IF RetHittingChildren = {}
           THEN ret.value = Some([node_id |-> ret.node, x |-> RetLocalX, y |-> RetLocalY])
           ELSE LET first == CHOOSE i \in RetHittingChildren :
                                \A j \in RetHittingChildren : i <= j
                IN  ret.value = hit(LayoutList(ret.node)[first], RetLocalX, RetLocalY)

\* C2 witness: two layout children overlap at the point, the list does not
\* follow id order nor the DOM children, and the earlier entry wins.
C2_Witness ==
    /\ IsHit
    /\ ~RetOutside
    /\ Cardinality(RetHittingChildren) = 2
    /\ LayoutList(ret.node) # children[ret.node]
    /\ ret.value.val.node_id = LayoutList(ret.node)[1]
    /\ LayoutList(ret.node)[1] > LayoutList(ret.node)[2]

\* n and its ancestors through layout_parent.
RECURSIVE LayoutChain(_)
LayoutChain(n) ==
    {n} \cup (IF layout_parent[n].some THEN LayoutChain(layout_parent[n].val) ELSE {})

\* The sum of f over the nodes of s.
RECURSIVE SumOver(_, _)
SumOver(s, f) ==
    IF s = {} THEN 0
    ELSE LET m == CHOOSE a \in s : TRUE IN f[m] + SumOver(s \ {m}, f)

OffsetX == [n \in NodeIds |-> final_layout[n].location.x - scroll_offset[n].x]
OffsetY == [n \in NodeIds |-> final_layout[n].location.y - scroll_offset[n].y]

IsChainExample ==
    /\ layout_parent = ChainLayoutParent
    /\ \A n \in NodeIds : scroll_offset[n] = Scroll(0, 0)
    /\ final_layout[1].location = [x |-> 10, y |-> 10]
    /\ final_layout[2].location = [x |-> 5, y |-> 5]
    /\ final_layout[3].location = [x |-> 2, y |-> 2]

\* C3: n.absolute_position(x, y) is (x, y) plus the sum, over n and its
\* ancestors through layout_parent, of final_layout offset minus scroll
\* offset; the chain with offsets (10,10), (5,5), (2,2) and zero scroll gives
\* (17,17) for absolute_position(0, 0) on the deepest node.
C3_AbsolutePositionSumsLayoutChain ==
    IsAbs =>
        /\ ret.value = [x |-> ret.x + SumOver(LayoutChain(ret.node), OffsetX),
                        y |-> ret.y + SumOver(LayoutChain(ret.node), OffsetY)]
        /\ (IsChainExample /\ ret.node = 3 /\ ret.x = 0 /\ ret.y = 0)
              => ret.value = [x |-> 17, y |-> 17]

\* C3 witness: the example chain, whose DOM parents are not its layout parents.
C3_Witness ==
    /\ IsAbs
    /\ IsChainExample
    /\ parent[3] # layout_parent[3]
    /\ ret.node = 3 /\ ret.x = 0 /\ ret.y = 0
    /\ ret.value = [x |-> 17, y |-> 17]

\* ------------------------------------------------------------ C4, C5, C6

SharedCalls == {"has_data", "borrow_data"}
ExclusiveCalls == {"ensure_data", "clear_data", "mutate_data"}

RECURSIVE GuardsOn(_, _, _)
GuardsOn(n, kind, ws) ==
    IF ws = {} THEN 0
    ELSE LET w == CHOOSE a \in ws : TRUE
         IN  held[w][n][kind] + GuardsOn(n, kind, ws \ {w})

\* The accessors of node n's cell: guards callers hold, and calls that have
\* borrowed and not yet returned.
SharedHolders(n) ==
    GuardsOn(n, "shared", Workers)
      + Cardinality({w \in Workers : thread[w].pc \in SharedCalls /\ thread[w].node = n})

ExclusiveHolders(n) ==
    GuardsOn(n, "exclusive", Workers)
      + Cardinality({w \in Workers : thread[w].pc \in ExclusiveCalls /\ thread[w].node = n})

SharedOrExclusive ==
    \A n \in NodeIds :
        \/ ExclusiveHolders(n) = 0
        \/ ExclusiveHolders(n) = 1 /\ SharedHolders(n) = 0

\* A call is turned away only by a conflicting accessor of its own node.
ExcludedOnlyByOwnNode ==
    \A w \in Workers :
        (thread[w].pc = "idle" /\ thread'[w].pc = "panicked") =>
            LET n == thread'[w].node
            IN  \/ ExclusiveHolders(n) > 0
                \/ thread'[w].last.op \in ExclusiveCalls /\ SharedHolders(n) > 0

\* C4: at every moment each node's style-data cell has either any number
\* of shared accessors (borrow_data, has_data) and no exclusive one, or exactly
\* one exclusive accessor (ensure_data, mutate_data, clear_data) and no shared
\* one, under every interleaving of the workers' calls; accessors of different
\* nodes never exclude each other.
C4_SharedXorExclusivePerNode ==
    []SharedOrExclusive /\ [][ExcludedOnlyByOwnNode]_vars

\* C4 witness: both workers are shared accessors of one node while another
\* node has its exclusive accessor.
C4_Witness ==
    \E n, m \in NodeIds :
        /\ n # m
        /\ ExclusiveHolders(m) = 1
        /\ SharedHolders(n) >= 2
        /\ \A w \in Workers :
              held[w][n].shared > 0 \/ (thread[w].pc \in SharedCalls /\ thread[w].node = n)

\* Worker w's call op on node n returns in this step.
Returns(w, op, n) == InCall(w, op, n) /\ thread'[w].pc = "idle"

\* C5: ensure_data on a slot that already holds d leaves it holding d, and
\* on an empty slot stores the default value; either way the slot is non-empty
\* afterwards and the caller has exclusive access to it.
C5_EnsureDataIdempotent ==
    [][\A w \in Workers, n \in NodeIds :
          Returns(w, "ensure_data", n) =>
              /\ stylo_element_data[n].some => stylo_element_data'[n] = stylo_element_data[n]
              /\ ~stylo_element_data[n].some => stylo_element_data'[n] = Some(DefaultData)
              /\ stylo_element_data'[n].some
              /\ held'[w][n].exclusive = 1
              /\ ExclusiveHolders(n)' = 1 /\ SharedHolders(n)' = 0]_vars

\* C5 witness: ensure_data has returned on a slot whose data is not the
\* default: the caller has not written through its guard since (that would be
\* its last call), and no one else can while it holds the guard.
C5_Witness ==
    \E w \in Workers, n \in NodeIds :
        /\ thread[w].last.op = "ensure_data" /\ thread[w].last.node = n
        /\ held[w][n].exclusive = 1
        /\ stylo_element_data[n] = Some("styled")

\* C6: borrow_data and mutate_data return None exactly when the slot is
\* empty, has_data answers the same, and none of the three changes the slot;
\* the slot becomes non-empty only as ensure_data returns and empty only as
\* clear_data returns, which always leaves it empty.
C6_NoneIffNotEnsured ==
    [][\A n \in NodeIds :
          /\ \A w \in Workers :
                /\ Returns(w, "borrow_data", n) =>
                      /\ thread'[w].last.value = None <=> ~stylo_element_data[n].some
                      /\ stylo_element_data'[n] = stylo_element_data[n]
                /\ Returns(w, "mutate_data", n) =>
                      /\ thread'[w].last.value = None <=> ~stylo_element_data[n].some
                      /\ stylo_element_data'[n] = stylo_element_data[n]
                /\ Returns(w, "has_data", n) =>
                      /\ thread'[w].last.value = stylo_element_data[n].some
                      /\ stylo_element_data'[n] = stylo_element_data[n]
                /\ Returns(w, "clear_data", n) => stylo_element_data'[n] = None
          /\ (~stylo_element_data[n].some /\ stylo_element_data'[n].some) =>
                \E w \in Workers : Returns(w, "ensure_data", n)
          /\ (stylo_element_data[n].some /\ ~stylo_element_data'[n].some) =>
                \E w \in Workers : Returns(w, "clear_data", n)]_vars

\* C6 witness: a slot that was ensured and then cleared: one worker's
\* clear_data has returned and the other's mutate_data then returned None.
C6_Witness ==
    \E w, u \in Workers, n \in NodeIds :
        /\ w # u
        /\ thread[w].last.op = "clear_data" /\ thread[w].last.node = n
        /\ thread[u].pc = "idle"
        /\ thread[u].last.op = "mutate_data" /\ thread[u].last.node = n
        /\ thread[u].last.value = None
        /\ ~stylo_element_data[n].some

\* -------------------------------------------------------------------- C7

\* Worker w's last call was process_preorder on n, and it returned v.
Visited(w, n, v) ==
    /\ thread[w].pc = "idle"
    /\ thread[w].last.op = "process_preorder"
    /\ thread[w].last.node = n
    /\ thread[w].last.value = v

ElementsVisitedHaveData ==
    \A n \in NodeIds :
        /\ (n \in recalculated \/ \E w \in Workers : Visited(w, n, "done")) =>
              IsElement(n) /\ stylo_element_data[n].some
        /\ is_text_node(n) =>
              /\ n \notin recalculated
              /\ ~stylo_element_data[n].some
              /\ stylo_borrow[n] = FreeCell

TextNeverTouched ==
    \A n \in NodeIds :
        is_text_node(n) =>
            /\ stylo_element_data'[n] = stylo_element_data[n]
            /\ stylo_borrow'[n] = stylo_borrow[n]
            /\ \A w \in Workers : thread'[w].pc # "process_preorder" \/ thread'[w].node # n

\* C7: every element the pre-order step has visited has a non-empty
\* style-data slot once the step has returned, and so when the traversal ends;
\* a text node is skipped: its slot is neither created nor borrowed and
\* recalc_style_at does not run on it.
C7_VisitedElementsHaveData ==
    []ElementsVisitedHaveData /\ [][TextNeverTouched]_vars

\* C7 witness: the traversal is over, having run the step on an element whose
\* slot it had to create (the data is there) and on a text node (skipped).
C7_Witness ==
    /\ worklist = {}
    /\ \A w \in Workers : thread[w].pc = "idle"
    /\ \E n \in recalculated : stylo_element_data[n].some
    /\ \E w \in Workers, t \in NodeIds : is_text_node(t) /\ Visited(w, t, "skipped")

\* ---------------------------------------------------------------- C8, C9

\* Worker w's last call was op on node n.
LastCall(w, op, n) == thread[w].last.op = op /\ thread[w].last.node = n

\* Worker w returns from handled_snapshot on node n in this step.
ChecksSnapshot(w, n) ==
    /\ thread'[w] # thread[w]
    /\ thread'[w].last.op = "handled_snapshot"
    /\ thread'[w].last.node = n

SetLeavesHandled ==
    /\ \A w \in Workers : thread[w].pc # "panicked"
    /\ \A w \in Workers, n \in NodeIds :
          LastCall(w, "set_handled_snapshot", n) => snapshot_handled[n]

HandledIsSticky ==
    \A n \in NodeIds :
        snapshot_handled[n] =>
            /\ snapshot_handled'[n]
            /\ \A w \in Workers : ChecksSnapshot(w, n) => thread'[w].last.value = TRUE

\* C8: once set_handled_snapshot has been called on a node, by one worker
\* or by several in any interleaving, the flag is true, no call fails, every
\* later handled_snapshot on the node returns true and the flag never goes
\* back to false.
C8_SetHandledSnapshotSticky ==
    []SetLeavesHandled /\ [][HandledIsSticky]_vars

\* C8 witness: both workers have called set_handled_snapshot on one node.
C8_Witness ==
    \E n \in NodeIds :
        /\ snapshot_handled[n]
        /\ \A w \in Workers : LastCall(w, "set_handled_snapshot", n)

\* The workers told that node n's snapshot was not handled yet, now consuming it.
Consumers(n) == {w \in Workers : thread[w].pc = "consume" /\ thread[w].node = n}

\* C9 as claimed: of the workers racing on one node, each checking
\* handled_snapshot and then calling set_handled_snapshot, exactly one is told
\* that the snapshot was not yet handled; no two consume the same snapshot.
C9_Claimed_SingleConsumer ==
    \A n \in NodeIds : Cardinality(Consumers(n)) <= 1

\* C9 as amended: the flag is read by an atomic load and written by an
\* atomic store.  A worker is told "not yet handled" exactly when its check
\* comes before every set_handled_snapshot on the node: the first to check is
\* told so, and a worker that checks after a set has completed is told the
\* snapshot is handled.
C9_ToldUnhandledIffCheckedBeforeSet ==
    [][\A w \in Workers, n \in NodeIds :
          ChecksSnapshot(w, n) =>
              /\ thread'[w].last.value = snapshot_handled[n]
              /\ thread'[w].pc = "consume" <=> ~snapshot_handled[n]]_vars

\* C9 witness: one worker has consumed a snapshot and set the flag, and the
\* other, checking afterwards, was told it is handled.
C9_Witness ==
    \E w, u \in Workers, n \in NodeIds :
        /\ w # u
        /\ LastCall(w, "set_handled_snapshot", n)
        /\ LastCall(u, "handled_snapshot", n)
        /\ thread[u].last.value = TRUE

\* ------------------------------------------------------------------- C10

\* apply_selector_flags has just been called, as ret' tells.
AppliesFlags == ret'.op = "apply_selector_flags"

\* C10: apply_selector_flags(flags) ORs the self-directed subset of flags
\* into the node's own selector_flags, and over any sequence of calls on any
\* nodes every node's selector_flags only grows: no set bit is ever cleared.
C10_SelectorFlagsOnlyGrow ==
    [][/\ \A n \in NodeIds : selector_flags[n] \subseteq selector_flags'[n]
       /\ AppliesFlags =>
             selector_flags'[ret'.node] =
                 selector_flags[ret'.node] \cup (ret'.flags \cap SelfDirectedFlags)]_vars

\* C10 witness: after a call that brought a self-directed flag, the node
\* still has a flag that only an earlier call can have set.
C10_Witness ==
    /\ ret.op = "apply_selector_flags"
    /\ ret.flags \cap SelfDirectedFlags # {}
    /\ selector_flags[ret.node] \ ret.flags # {}

\* ------------------------------------------------------------------- C11

\* C11: after apply_selector_flags(flags) on a node that has a parent, the
\* parent's selector_flags contains every parent-directed flag of flags, so
\* that has_selector_flags(flags.for_parent()) holds on the parent.
C11_ParentHasParentDirectedFlags ==
    (ret.op = "apply_selector_flags" /\ parent_node(ret.node).some) =>
        has_selector_flags(parent_node(ret.node).val, for_parent(ret.flags))

\* ------------------------------------------------------------------- C12

\* What the call of worker w writes, as the code writes it: its self-directed
\* flags into its own node, and into the parent when the second statement runs.
FlagsWrittenBy(w) ==
    LET n == flags_thread[w].node
        f == flags_thread[w].flags
    IN  {<<n, for_self(f)>>} \cup
        (IF for_parent(f) # {} /\ parent_node(n).some
         THEN {<<parent_node(n).val, for_self(f)>>} ELSE {})

\* C12: when two workers run apply_selector_flags at the same time and both
\* write one node's selector_flags, both calls complete without abort in
\* every interleaving, and the node's final selector_flags contains what
\* both wrote.
\* Stated for calls on two different elements, the case of the examples.
C12_ConcurrentApplyCompletes ==
    /\ \A w, u \in Workers :
          (/\ FlagsAt(w, "panicked")
           /\ ~FlagsAt(u, "idle")) => (u = w \/ flags_thread[u].node = flags_thread[w].node)
    /\ (\A w \in Workers : FlagsAt(w, "done")) =>
          \A w \in Workers : \A c \in FlagsWrittenBy(w) :
              c[2] \subseteq selector_flags[c[1]]

\* ------------------------------------------------------------------- C13

\* The siblings of n before it (nearest first) and after it, by list position.
SiblingsBefore(n) ==
    LET list == children[parent[n].val]
        i == CHOOSE j \in 1 .. Len(list) : list[j] = n
    IN  [j \in 1 .. (i - 1) |-> list[i - j]]

SiblingsAfter(n) ==
    LET list == children[parent[n].val]
        i == CHOOSE j \in 1 .. Len(list) : list[j] = n
    IN  [j \in 1 .. (Len(list) - i) |-> list[i + j]]

\* The first element of a list of nodes, if any.
NearestElement(list) ==
    IF \E j \in 1 .. Len(list) : raw_dom_data[list[j]] = "Element"
    THEN Some(list[CHOOSE j \in 1 .. Len(list) :
                      /\ raw_dom_data[list[j]] = "Element"
                      /\ \A i \in 1 .. (j - 1) : raw_dom_data[list[i]] # "Element"])
    ELSE None

NthOf(list, k) == IF k \in 1 .. Len(list) THEN Some(list[k]) ELSE None

\* C13: prev_sibling_element and next_sibling_element return the nearest
\* preceding / following sibling that is an element, skipping the others, and
\* None without failing when there is none (first or last child, no parent);
\* backward(n) / forward(n) return the sibling n positions before / after by
\* raw list position, and None when that position is outside the list.
C13_SiblingNavigation ==
    LET n == ret.node
        orphan == ~parent[n].some
    IN  /\ ret.op = "prev_sibling_element" =>
              /\ ~ret.panic
              /\ ret.value = IF orphan THEN None ELSE NearestElement(SiblingsBefore(n))
        /\ ret.op = "next_sibling_element" =>
              /\ ~ret.panic
              /\ ret.value = IF orphan THEN None ELSE NearestElement(SiblingsAfter(n))
        /\ (ret.op = "backward" /\ ret.n > 0) =>
              /\ ~ret.panic
              /\ ret.value = IF orphan THEN None ELSE NthOf(SiblingsBefore(n), ret.n)
        /\ (ret.op = "forward" /\ ret.n > 0) =>
              /\ ~ret.panic
              /\ ret.value = IF orphan THEN None ELSE NthOf(SiblingsAfter(n), ret.n)

\* ------------------------------------------------------------------- C14

\* C14: is_root is true for a node if and only if the node has a parent and
\* that parent has no parent; the node without a parent (the document, id 0)
\* and a node at depth two or more are not roots.
C14_IsRootIffParentIsTop ==
    ret.op = "is_root" =>
        (ret.value.val <=>
            (parent[ret.node].some /\ ~parent[parent[ret.node].val].some))

\* ------------------------------------------------------------------- C15

IsDashMatch == ret.op = "attr_matches" /\ ret.operation = "DashMatch"

\* C15: for every present attribute value v and operand o, DashMatch is true
\* if and only if v equals o or v starts with o immediately followed by '-';
\* DashMatch("en-US","en") and DashMatch("en","en") are true and
\* DashMatch("en-US","e") is false; with the attribute absent it is false.
C15_DashMatch ==
    IsDashMatch =>
        LET found == attr(ret.node, ret.local_name)
            v == found.val
            o == ret.operand
        IN  ret.value <=>
               /\ found.some
               /\ \/ v = o
                  \/ /\ Len(v) > Len(o)
                     /\ SubSeq(v, 1, Len(o)) = o
                     /\ v[Len(o) + 1] = "-"

\* ------------------------------------------------------------------- C16

\* The tokens of s: its maximal runs of chars that are not ASCII whitespace.
IsWhitespace(c) == c \in {" ", "\t", "\n", "\f", "\r"}

TokensOf(s) ==
    {SubSeq(s, i, j) : <<i, j>> \in
        {r \in (1 .. Len(s)) \X (1 .. Len(s)) :
            /\ r[1] <= r[2]
            /\ \A k \in r[1] .. r[2] : ~IsWhitespace(s[k])
            /\ r[1] = 1 \/ IsWhitespace(s[r[1] - 1])
            /\ r[2] = Len(s) \/ IsWhitespace(s[r[2] + 1])}}

\* Equality under the caller's policy, stated on lower-cased copies.
Lowered(s) == [i \in 1 .. Len(s) |-> IF s[i] = "A" THEN "a" ELSE s[i]]

EqualUnder(policy, a, b) ==
    IF policy = "CaseSensitive" THEN a = b ELSE Lowered(a) = Lowered(b)

ClassOf(n) ==
    IF element_data[n].some /\ element_data[n].val.attrs["class"].some
    THEN Some(element_data[n].val.attrs["class"].val)
    ELSE None

\* C16: has_class(x) is true if and only if x equals, under the caller's
\* case-sensitivity policy, one of the tokens of the class attribute split on
\* ASCII whitespace; so it is false for a substring of a token, for a string
\* spanning several tokens, and for a node without class attribute.
C16_HasClassIffToken ==
    ret.op = "has_class" =>
        /\ ret.value <=>
              /\ ClassOf(ret.node).some
              /\ \E t \in TokensOf(ClassOf(ret.node).val) :
                     EqualUnder(ret.case_sensitivity, t, ret.search_name)
        /\ ~ClassOf(ret.node).some => ~ret.value
        /\ (\E i \in 1 .. Len(ret.search_name) : IsWhitespace(ret.search_name[i]))
              => ~ret.value

\* C16 witness: a name found, under the case-insensitive policy only, among
\* several tokens.
C16_Witness ==
    /\ ret.op = "has_class"
    /\ ret.value
    /\ ret.case_sensitivity = "AsciiCaseInsensitive"
    /\ Cardinality(TokensOf(ClassOf(ret.node).val)) >= 2
    /\ ret.search_name \notin TokensOf(ClassOf(ret.node).val)

\* ------------------------------------------------------------------- C17

IsPseudo == ret.op = "match_non_ts_pseudo_class"

ElementOf(n) == raw_dom_data[n] = "Element"

\* C17: any-link and link are true iff the node is an element with tag a or
\* area that has an href attribute; checked iff the element is a checkbox
\* input whose checked flag is set; hover iff element_state has HOVER; focus
\* iff it has FOCUS; every other pseudo-class is false on every node, and
\* every pseudo-class but hover and focus is false on a non-element node.
C17_PseudoClassTable ==
    IsPseudo =>
        LET n == ret.node
            pc == ret.pseudo_class
        IN  /\ pc \in {"AnyLink", "Link"} =>
                  (ret.value <=>
                      /\ ElementOf(n)
                      /\ element_data[n].val.name \in {"a", "area"}
                      /\ element_data[n].val.attrs["href"] # None)
            /\ pc = "Checked" =>
                  (ret.value <=>
                      /\ ElementOf(n)
                      /\ element_data[n].val.checkbox_input_checked = Some(TRUE))
            /\ pc = "Hover" => (ret.value <=> "HOVER" \in element_state[n])
            /\ pc = "Focus" => (ret.value <=> "FOCUS" \in element_state[n])
            /\ pc \notin {"AnyLink", "Link", "Checked", "Hover", "Focus"} => ~ret.value
            /\ (~ElementOf(n) /\ pc \notin {"Hover", "Focus"}) => ~ret.value

\* C17 witness: link matches an <area> that has an (empty) href.
C17_Witness ==
    /\ IsPseudo
    /\ ret.pseudo_class = "Link"
    /\ ret.value
    /\ element_data[ret.node].val.name = "area"
    /\ element_data[ret.node].val.attrs["href"] = Some(<<>>)

\* ------------------------------------------------------------------- C18

IsHints == ret.op = "synthesize_presentational_hints"

AttrOf(n, name) ==
    IF element_data[n].some THEN element_data[n].val.attrs[name] ELSE None

HexDigits ==
    {"0", "1", "2", "3", "4", "5", "6", "7", "8", "9",
     "a", "b", "c", "d", "e", "f", "A", "B", "C", "D", "E", "F"}

HexDigitValue(c) ==
    CASE c \in {"a", "A"} -> 10 [] c \in {"b", "B"} -> 11 [] c \in {"c", "C"} -> 12
      [] c \in {"d", "D"} -> 13 [] c \in {"e", "E"} -> 14 [] c \in {"f", "F"} -> 15
      [] c = "0" -> 0 [] c = "1" -> 1 [] c = "2" -> 2 [] c = "3" -> 3 [] c = "4" -> 4
      [] c = "5" -> 5 [] c = "6" -> 6 [] c = "7" -> 7 [] c = "8" -> 8 [] c = "9" -> 9

\* '#' followed by exactly k hexadecimal digits.
IsHashHex(v, k) ==
    /\ Len(v) = k + 1
    /\ v[1] = "#"
    /\ \A i \in 2 .. (k + 1) : v[i] \in HexDigits

\* The colour the claim gives a bgcolor value.
ClaimedColor(v) ==
    IF IsHashHex(v, 3)
    THEN Some(<<HexDigitValue(v[2]), HexDigitValue(v[3]), HexDigitValue(v[4]), 1>>)
    ELSE IF IsHashHex(v, 6)
    THEN Some(<<16 * HexDigitValue(v[2]) + HexDigitValue(v[3]),
                16 * HexDigitValue(v[4]) + HexDigitValue(v[5]),
                16 * HexDigitValue(v[6]) + HexDigitValue(v[7]), 1>>)
    ELSE None

BackgroundColors(hints) ==
    {hints[i].value : i \in {j \in DOMAIN hints : hints[j].property = "BackgroundColor"}}

\* C18: for every bgcolor value, a background-colour declaration is emitted
\* if and only if the value is '#' and exactly 3 hexadecimal digits (each a
\* 0..15 channel) or exactly 6 (a byte per channel), alpha 1.0; every other
\* string is dropped silently: no declaration, no error, no abort.
C18_BgcolorHashHexOnly ==
    (IsHints /\ AttrOf(ret.node, "bgcolor").some) =>
        /\ ~ret.panic
        /\ BackgroundColors(ret.value) =
              IF ClaimedColor(AttrOf(ret.node, "bgcolor").val).some
              THEN {ClaimedColor(AttrOf(ret.node, "bgcolor").val).val}
              ELSE {}

\* ------------------------------------------------------------------- C19

\* The size declarations among the hints.
SizeDeclarations(hints) ==
    {hints[i] : i \in {j \in DOMAIN hints : hints[j].property \in {"Width", "Height"}}}

\* The number a width or height value stands for, read independently of the
\* parser: an optional sign, digits, and an optional px or % suffix.
SizeText(v) ==
    IF Len(v) >= 2 /\ SubSeq(v, Len(v) - 1, Len(v)) = <<"p", "x">>
    THEN [unit |-> "Length", text |-> SubSeq(v, 1, Len(v) - 2)]
    ELSE IF Len(v) >= 1 /\ v[Len(v)] = "%"
    THEN [unit |-> "Percentage", text |-> SubSeq(v, 1, Len(v) - 1)]
    ELSE [unit |-> "Length", text |-> v]

\* C19: for every width or height value, the synthesis emits no declaration
\* or a size declaration whose length-or-percentage is non-negative, a pixel
\* length equal to the parsed number or a percentage equal to the parsed
\* number over 100; no negative length or percentage is ever emitted.
C19_SizeHintsNonNegative ==
    (IsHints /\ (AttrOf(ret.node, "width").some \/ AttrOf(ret.node, "height").some)) =>
        /\ \A d \in SizeDeclarations(ret.value) :
              /\ d.value.number >= 0
              /\ LET name == IF d.property = "Width" THEN "width" ELSE "height"
                     given == SizeText(AttrOf(ret.node, name).val)
                 IN  /\ d.value.kind = given.unit
                     /\ parse_f32(given.text) = Some(d.value.number)
        /\ Cardinality(SizeDeclarations(ret.value)) <= 1

\* ------------------------------------------------------------------- C20

IsFetch == ret.op \in {"fetch_blob", "fetch_string", "fetch_image"}

\* What goes wrong in the call ret records, if anything, by cause.
FetchFailure ==
    IF ret.url \in {"data_malformed", "data_undecodable", "unparsable"} THEN "url"
    ELSE IF ret.url = "file" /\ ret.read # "ok" THEN "file"
    ELSE IF ret.url = "http" /\ ret.read # "ok" THEN "transport"
    ELSE IF ret.op = "fetch_string" /\ ~ret.body.utf8 THEN "utf8"
    ELSE IF ret.op = "fetch_image" /\ ~ret.body.image /\ ~ret.body.svg THEN "decode"
    ELSE "none"

\* C20: every failure of fetch_blob, fetch_string or fetch_image is returned
\* to the caller as a typed, recoverable error value that identifies its
\* cause; no failing input or failing read (malformed data: URL, body read
\* error, non-UTF-8 body, unparsable URL) aborts the process instead.
C20_FetchFailuresAreErrors ==
    IsFetch =>
        /\ ret.tag # "Panic"
        /\ FetchFailure # "none" => ret.tag = "Err"
        /\ FetchFailure = "none" => ret.tag = "Ok"

\* ------------------------------------------------------------------- C21

IsRoundTrip == ret.op = "absolute_position_of_hit"

\* Every node's layout_parent is the node whose layout_children lists it.
LayoutTreeAgrees ==
    \A n, p \in NodeIds :
        layout_parent[n] = Some(p) <=>
            /\ layout_children[p].some
            /\ \E i \in 1 .. Len(layout_children[p].val) : layout_children[p].val[i] = n

\* n and its ancestors through layout_parent, from n upwards.
RECURSIVE PathUp(_)
PathUp(n) ==
    <<n>> \o (IF layout_parent[n].some THEN PathUp(layout_parent[n].val) ELSE <<>>)

IsF32(v) == f32_round(v) = v

\* Taking v down from path[i] to path[1] as hit does, no difference or sum
\* is rounded; loc and scr give the offsets on one axis.
RECURSIVE ExactDown(_, _, _, _, _)
ExactDown(path, i, v, loc, scr) ==
    IF i = 0 THEN TRUE
    ELSE LET a == v - loc[path[i]]
             b == a + scr[path[i]]
         IN  /\ IsF32(scr[path[i]]) /\ IsF32(a) /\ IsF32(b)
             /\ ExactDown(path, i - 1, b, loc, scr)

\* Taking v up from path[i] to the end of path as absolute_position does, no
\* sum or difference is rounded.
RECURSIVE ExactUp(_, _, _, _, _)
ExactUp(path, i, v, loc, scr) ==
    IF i > Len(path) THEN TRUE
    ELSE LET a == v + loc[path[i]]
             b == a - scr[path[i]]
         IN  /\ IsF32(scr[path[i]]) /\ IsF32(a) /\ IsF32(b)
             /\ ExactUp(path, i + 1, b, loc, scr)

LocX == [n \in NodeIds |-> final_layout[n].location.x]
LocY == [n \in NodeIds |-> final_layout[n].location.y]
ScrX == [n \in NodeIds |-> scroll_offset[n].x]
ScrY == [n \in NodeIds |-> scroll_offset[n].y]

\* Between the node hit was called on and the node it returned, neither call
\* rounds.
RoundTripExact ==
    LET path == PathUp(ret.hit.node_id)
    IN  /\ ExactDown(path, Len(path), ret.x, LocX, ScrX)
        /\ ExactDown(path, Len(path), ret.y, LocY, ScrY)
        /\ ExactUp(path, 1, ret.hit.x, LocX, ScrX)
        /\ ExactUp(path, 1, ret.hit.y, LocY, ScrY)

RoundTripIsIdentity == ret.value = [x |-> ret.x, y |-> ret.y]

\* C21 as claimed: for a node r with no layout parent, in a tree whose
\* layout_parent and layout_children agree, if r.hit(x, y) returns
\* (n, lx, ly) then n.absolute_position(lx, ly) equals (x, y), for every
\* point and every combination of layout offsets and scroll offsets.
C21_Claimed_HitAbsoluteInverse ==
    (IsRoundTrip /\ ~layout_parent[ret.node].some /\ LayoutTreeAgrees)
        => RoundTripIsIdentity

\* C21 as amended: under the same conditions n.absolute_position(lx, ly)
\* equals (x, y) whenever no sum or difference the two calls compute between
\* r and n is rounded by f32.
C21_HitAbsoluteInverseWhenExact ==
    (IsRoundTrip /\ ~layout_parent[ret.node].some /\ LayoutTreeAgrees /\ RoundTripExact)
        => RoundTripIsIdentity

\* C21 witness: a hit two levels below r, through a scrolled node that is
\* not at its parent's origin, handed back to absolute_position without any
\* rounding.
C21_Witness ==
    /\ IsRoundTrip
    /\ ~layout_parent[ret.node].some /\ LayoutTreeAgrees /\ RoundTripExact
    /\ Len(PathUp(ret.hit.node_id)) >= 3
    /\ \E n \in LayoutChain(ret.hit.node_id) :
          /\ scroll_offset[n] # Scroll(0, 0)
          /\ final_layout[n].location # [x |-> 0, y |-> 0]
    /\ ret.hit.x # ret.x
    /\ RoundTripIsIdentity

\* ------------------------------------------------------------------- C22

\* A Document, Comment or AnonymousBlock node.
IsOtherVariant(n) == raw_dom_data[n] \in {"Document", "Comment", "AnonymousBlock"}

\* Worker w starts the pre-order step on node n in this step.
StepsOnto(w, n) ==
    /\ thread[w].pc = "idle"
    /\ thread'[w] # thread[w]
    /\ thread'[w].node = n
    /\ n \in worklist /\ n \notin worklist'

ReturnsOnlyForTextAndElements ==
    \A w \in Workers, n \in NodeIds :
        /\ Visited(w, n, "skipped") => raw_dom_data[n] = "Text"
        /\ Visited(w, n, "done") =>
              /\ IsElement(n)
              /\ stylo_element_data[n].some
              /\ n \in recalculated
        /\ InCall(w, "process_preorder", n) =>
              IsElement(n) /\ stylo_element_data[n].some

OnlyElementsHaveData ==
    \A n \in NodeIds :
        ~IsElement(n) =>
            /\ ~stylo_element_data[n].some
            /\ n \notin recalculated
            /\ stylo_borrow[n] = FreeCell

OtherVariantsAbortUntouched ==
    \A w \in Workers, n \in NodeIds :
        (StepsOnto(w, n) /\ IsOtherVariant(n)) =>
            /\ thread'[w].pc = "panicked"
            /\ thread'[w].last.value = "panic"
            /\ UNCHANGED <<stylo_element_data, stylo_borrow, recalculated>>

\* C22: the pre-order step returns normally only for text nodes (nothing
\* done) and element nodes (style data ensured, recalc_style_at run); on a
\* Document, Comment or AnonymousBlock node it aborts on the failed
\* as_element narrowing before a style-data slot is created or borrowed and
\* before recalc_style_at runs, so no node that is not an element ever
\* holds style data from the traversal.
C22_OnlyElementsGetStyleData ==
    /\ [](ReturnsOnlyForTextAndElements /\ OnlyElementsHaveData)
    /\ [][OtherVariantsAbortUntouched]_vars

\* C22 witness: the step has aborted on a comment that an element noted as
\* its child, leaving the comment without style data, after it returned
\* normally from that element (data ensured) and from a text node.
C22_Witness ==
    \E w \in Workers, c \in NodeIds :
        /\ raw_dom_data[c] = "Comment"
        /\ thread[w].pc = "panicked"
        /\ thread[w].node = c
        /\ thread[w].last.value = "panic"
        /\ ~stylo_element_data[c].some
        /\ parent[c].some
        /\ parent[c].val \in recalculated
        /\ stylo_element_data[parent[c].val].some
        /\ \E v \in Workers, t \in NodeIds : Visited(v, t, "skipped")

====
